---- MODULE Spec2Model ----
(***************************************************************************)
(* Job reconciliation tool (recon_app.py): the name normaliser, the fuzzy  *)
(* name matcher, the cost comparator, the table loaders and the three      *)
(* reconciliation loops, as a state machine.                               *)
(*                                                                         *)
(* Text is a sequence of one-character strings.  A cell of an uploaded     *)
(* sheet is a record [t, v]: t = "str" (v is the text), t = "num" (a       *)
(* numeric cell, v is what str() prints for it) or t = "nan" (empty cell). *)
(* Costs are integers counted in tenths of the currency unit.              *)
(***************************************************************************)
EXTENDS Integers, Sequences, FiniteSets, TLC

(***************************************************************************)
(* Characters and the str methods the program uses                         *)
(***************************************************************************)
\* the characters of the model, in code-point order
Uppers ==
  <<"A", "B", "C", "D", "E", "F", "G", "H", "I", "J", "K", "L", "M", "N", "O", "P", "Q", "R", "S", "T", "U", "V", "W", "X", "Y", "Z">>
Lowers ==
  <<"a", "b", "c", "d", "e", "f", "g", "h", "i", "j", "k", "l", "m", "n", "o", "p", "q", "r", "s", "t", "u", "v", "w", "x", "y", "z">>
Alphabet ==
  <<" ", "&", "(", ")", ".", "/", "0", "1", "2", "3", "4", "5", "6", "7", "8", "9">> \o Uppers \o <<"_">> \o Lowers

CharCode(c) == CHOOSE i \in 1..Len(Alphabet) : Alphabet[i] = c

IndexIn(l, x) == CHOOSE i \in 1..Len(l) : l[i] = x
Range(f) == {f[i] : i \in DOMAIN f}

LowerChar(c) == IF c \in Range(Uppers) THEN Lowers[IndexIn(Uppers, c)] ELSE c
UpperChar(c) == IF c \in Range(Lowers) THEN Uppers[IndexIn(Lowers, c)] ELSE c

\* str.lower() and str.upper()
Lower(s) == [i \in 1..Len(s) |-> LowerChar(s[i])]
Upper(s) == [i \in 1..Len(s) |-> UpperChar(s[i])]

RECURSIVE LStrip(_)
LStrip(s) == IF s # <<>> /\ Head(s) = " " THEN LStrip(Tail(s)) ELSE s

RECURSIVE RStrip(_)
RStrip(s) ==
  IF s # <<>> /\ s[Len(s)] = " " THEN RStrip(SubSeq(s, 1, Len(s) - 1)) ELSE s

\* str.strip()
Strip(s) == RStrip(LStrip(s))

\* s.startswith(p), s.endswith(p), p in s
StartsWith(s, p) == Len(p) <= Len(s) /\ SubSeq(s, 1, Len(p)) = p
EndsWith(s, p) == Len(p) <= Len(s) /\ SubSeq(s, Len(s) - Len(p) + 1, Len(s)) = p
Contains(s, p) ==
  \E i \in 0..(Len(s) - Len(p)) : SubSeq(s, i + 1, i + Len(p)) = p

\* s.split(): the list of whitespace-separated words
RECURSIVE SplitFrom(_, _, _)
SplitFrom(s, cur, acc) ==
  IF s = <<>> THEN (IF cur = <<>> THEN acc ELSE Append(acc, cur))
  ELSE IF Head(s) = " "
       THEN SplitFrom(Tail(s), <<>>, IF cur = <<>> THEN acc ELSE Append(acc, cur))
       ELSE SplitFrom(Tail(s), Append(cur, Head(s)), acc)

Split(s) == SplitFrom(s, <<>>, <<>>)

\* sep.join(list)
RECURSIVE Join(_, _)
Join(sep, l) ==
  IF l = <<>> THEN <<>>
  ELSE IF Len(l) = 1 THEN l[1]
  ELSE l[1] \o sep \o Join(sep, Tail(l))

\* s < t in Python's string order (code points, then length)
RECURSIVE StrLess(_, _)
StrLess(s, t) ==
  IF t = <<>> THEN FALSE
  ELSE IF s = <<>> THEN TRUE
  ELSE IF Head(s) = Head(t) THEN StrLess(Tail(s), Tail(t))
  ELSE CharCode(Head(s)) < CharCode(Head(t))

\* sorted(set of strings)
RECURSIVE Sorted(_)
Sorted(S) ==
  IF S = {} THEN <<>>
  ELSE LET m == CHOOSE x \in S : \A y \in S \ {x} : StrLess(x, y)
       IN <<m>> \o Sorted(S \ {m})

Max2(a, b) == IF a >= b THEN a ELSE b
Abs(a) == IF a >= 0 THEN a ELSE -a

(***************************************************************************)
(* Cells                                                                   *)
(***************************************************************************)
StrCell(s) == [t |-> "str", v |-> s]
NumCell(s) == [t |-> "num", v |-> s]
NaN == [t |-> "nan", v |-> <<"n", "a", "n">>]

\* pd.isna(x), str(x)
isna(x) == x.t = "nan"
str(x) == x.v

(***************************************************************************)
(* normalize_tp_name                                                       *)
(***************************************************************************)
suffixes ==
  << <<" ", "l", "i", "m", "i", "t", "e", "d">>,
     <<" ", "l", "t", "d">>,
     <<" ", "l", "t", "d", ".">>,
     <<" ", "l", "l", "p">>,
     <<" ", "t", "r", "e", "e", " ", "s", "e", "r", "v", "i", "c", "e", "s">>,
     <<" ", "t", "r", "e", "e", " ", "s", "e", "r", "v", "i", "c", "e">>,
     <<" ", "t", "r", "e", "e", " ", "s", "u", "r", "g", "e", "r", "y">>,
     <<" ", "t", "r", "e", "e", " ", "s", "u", "r", "g", "e", "o", "n", "s">>,
     <<" ", "t", "r", "e", "e", " ", "c", "a", "r", "e">>,
     <<" ", "t", "r", "e", "e", " ", "s", "o", "l", "u", "t", "i", "o", "n", "s">>,
     <<" ", "t", "r", "e", "e", "s">>,
     <<" ", "a", "r", "b", "o", "r", "i", "c", "u", "l", "t", "u", "r", "a", "l">>,
     <<" ", "a", "r", "b", "o", "r", "i", "c", "u", "l", "t", "u", "r", "e">>,
     <<" ", "a", "r", "b", "o", "r", "i", "s", "t", "s">>,
     <<" ", "s", "e", "r", "v", "i", "c", "e", "s">>,
     <<" ", "c", "o", "n", "s", "u", "l", "t", "a", "n", "c", "y">>,
     <<" ", "c", "o", "n", "t", "r", "a", "c", "t", "o", "r", "s">>,
     <<" ", "(", "e", "a", "s", "t", " ", "m", "i", "d", "l", "a", "n", "d", "s", ")">>,
     <<" ", "(", "m", "i", "d", "l", "a", "n", "d", "s", ")">>,
     <<" ", "(", "s", "o", "u", "t", "h", ")">>,
     <<" ", "(", "n", "o", "r", "t", "h", ")">>,
     <<" ", "u", "k">>,
     <<" ", "g", "r", "o", "u", "p">> >>

prefixes ==
  << <<"d", "c", " ">>,
     <<"t", "c", "r", " ">> >>

\* the suffix loop with a break after the first suffix that matches
StripSuffixes_first_only(name, i) ==
  IF \E j \in i..Len(suffixes) : EndsWith(name, suffixes[j])
  THEN LET j == CHOOSE j \in i..Len(suffixes) :
                  /\ EndsWith(name, suffixes[j])
                  /\ \A h \in i..(j - 1) : ~EndsWith(name, suffixes[h])
       IN Strip(SubSeq(name, 1, Len(name) - Len(suffixes[j])))
  ELSE name

\* for suffix in suffixes: if name.endswith(suffix): name = name[:-len(suffix)].strip()
RECURSIVE StripSuffixes(_, _)
StripSuffixes(name, i) ==
  IF i > Len(suffixes) THEN name
  ELSE IF EndsWith(name, suffixes[i])
       THEN StripSuffixes(Strip(SubSeq(name, 1, Len(name) - Len(suffixes[i]))), i + 1)
       ELSE StripSuffixes(name, i + 1)

\* for prefix in prefixes: if name.startswith(prefix): name = name[len(prefix):].strip()
RECURSIVE StripPrefixes(_, _)
StripPrefixes(name, i) ==
  IF i > Len(prefixes) THEN name
  ELSE IF StartsWith(name, prefixes[i])
       THEN StripPrefixes(Strip(SubSeq(name, Len(prefixes[i]) + 1, Len(name))), i + 1)
       ELSE StripPrefixes(name, i + 1)

normalize_tp_name(name) ==
  IF isna(name) THEN <<>>
  ELSE Strip(StripPrefixes(StripSuffixes(Strip(Lower(str(name))), 1), 1))

(***************************************************************************)
(* rapidfuzz.fuzz: ratio, partial_ratio, token_set_ratio                   *)
(*                                                                         *)
(* A score is kept as the exact fraction 100 * sim / sum, as the record    *)
(* [sim, sum] with sum > 0, and compared by cross-multiplication.          *)
(***************************************************************************)
Score(sim, sum) == [sim |-> sim, sum |-> sum]
Score0 == Score(0, 1)
Score100 == Score(1, 1)

ScoreGE(a, b) == a.sim * b.sum >= b.sim * a.sum
ScoreGT(a, b) == a.sim * b.sum > b.sim * a.sum
ScoreMax(a, b) == IF ScoreGE(a, b) THEN a ELSE b
\* score >= t for a number t
ScoreAtLeast(a, t) == 100 * a.sim >= t * a.sum

\* One row of the longest-common-subsequence table: row[k] is the length of
\* the LCS of the characters consumed so far with the first k-1 of s2.
RECURSIVE LcsRow(_, _, _, _, _)
LcsRow(c, s2, prev, cur, j) ==
  IF j > Len(s2) THEN cur
  ELSE LET v == IF s2[j] = c THEN prev[j] + 1 ELSE Max2(prev[j + 1], cur[j])
           nxt == Append(cur, v)
       IN IF Len(nxt) = j + 1 THEN LcsRow(c, s2, prev, nxt, j + 1) ELSE nxt

RECURSIVE LcsRows(_, _, _, _)
LcsRows(s1, s2, prev, i) ==
  IF i > Len(s1) THEN prev[Len(s2) + 1]
  ELSE LET row == LcsRow(s1[i], s2, prev, <<0>>, 1)
       IN IF Len(row) = Len(prev) THEN LcsRows(s1, s2, row, i + 1) ELSE 0

lcs_len(s1, s2) == LcsRows(s1, s2, [k \in 1..(Len(s2) + 1) |-> 0], 1)

\* Indel distance: insertions and deletions only
indel_distance(s1, s2) == Len(s1) + Len(s2) - 2 * lcs_len(s1, s2)

\* 100 - 100 * dist / lensum, 100 when lensum = 0
norm_distance(dist, lensum) ==
  IF lensum = 0 THEN Score100 ELSE Score(lensum - dist, lensum)

\* fuzz.ratio
ratio(s1, s2) == norm_distance(indel_distance(s1, s2), Len(s1) + Len(s2))

RECURSIVE BestWindow(_, _, _, _)
BestWindow(s1, wins, i, best) ==
  IF i > Len(wins) THEN best
  ELSE LET r == ratio(s1, wins[i])
           b == IF ScoreGT(r, best) THEN r ELSE best
       IN IF b.sum > 0 THEN BestWindow(s1, wins, i + 1, b) ELSE b

\* The alignments of the needle s1 (Len(s1) <= Len(s2)) that partial_ratio
\* scores: the proper prefixes of s2 shorter than s1, the windows of s2 as
\* long as s1, and the suffixes of s2 no longer than s1; a window is scored
\* only when its boundary character occurs in s1.
RECURSIVE Windows(_, _, _, _, _)
Windows(kind, s1, s2, i, hi) ==
  IF i > hi THEN <<>>
  ELSE LET len1 == Len(s1)
           edge == IF kind = "prefix" THEN s2[i]
                   ELSE IF kind = "window" THEN s2[i + len1]
                   ELSE s2[i + 1]
           win == IF kind = "prefix" THEN SubSeq(s2, 1, i)
                  ELSE IF kind = "window" THEN SubSeq(s2, i + 1, i + len1)
                  ELSE SubSeq(s2, i + 1, Len(s2))
       IN (IF edge \in Range(s1) THEN <<win>> ELSE <<>>)
            \o Windows(kind, s1, s2, i + 1, hi)

partial_windows(s1, s2) ==
  Windows("prefix", s1, s2, 1, Len(s1) - 1)
    \o Windows("window", s1, s2, 0, Len(s2) - Len(s1) - 1)
    \o Windows("suffix", s1, s2, Len(s2) - Len(s1), Len(s2) - 1)

partial_ratio_impl(s1, s2) == BestWindow(s1, partial_windows(s1, s2), 1, Score0)

\* fuzz.partial_ratio
partial_ratio(s1, s2) ==
  IF s1 = <<>> /\ s2 = <<>> THEN Score100
  ELSE IF s1 = <<>> \/ s2 = <<>> THEN Score0
  ELSE LET shorter == IF Len(s1) <= Len(s2) THEN s1 ELSE s2
           longer == IF Len(s1) <= Len(s2) THEN s2 ELSE s1
           res == partial_ratio_impl(shorter, longer)
       IN IF ~ScoreGE(res, Score100) /\ Len(s1) = Len(s2)
          THEN ScoreMax(res, partial_ratio_impl(longer, shorter))
          ELSE res

\* fuzz.token_set_ratio
token_set_ratio(s1, s2) ==
  LET tokens_a == Range(Split(s1))
      tokens_b == Range(Split(s2))
      intersect == tokens_a \cap tokens_b
      diff_ab == tokens_a \ tokens_b
      diff_ba == tokens_b \ tokens_a
      diff_ab_joined == Join(<<" ">>, Sorted(diff_ab))
      diff_ba_joined == Join(<<" ">>, Sorted(diff_ba))
      ab_len == Len(diff_ab_joined)
      ba_len == Len(diff_ba_joined)
      sect_len == Len(Join(<<" ">>, Sorted(intersect)))
      sep == IF sect_len # 0 THEN 1 ELSE 0
      sect_ab_len == sect_len + sep + ab_len
      sect_ba_len == sect_len + sep + ba_len
      result == norm_distance(indel_distance(diff_ab_joined, diff_ba_joined),
                              sect_ab_len + sect_ba_len)
      sect_ab_ratio == norm_distance(sep + ab_len, sect_len + sect_ab_len)
      sect_ba_ratio == norm_distance(sep + ba_len, sect_len + sect_ba_len)
  IN IF s1 = <<>> \/ s2 = <<>> THEN Score0
     ELSE IF tokens_a = {} \/ tokens_b = {} THEN Score0
     ELSE IF intersect # {} /\ (diff_ab = {} \/ diff_ba = {}) THEN Score100
     ELSE IF sect_len = 0 THEN result
     ELSE ScoreMax(result, ScoreMax(sect_ab_ratio, sect_ba_ratio))

(***************************************************************************)
(* fuzzy_match                                                             *)
(***************************************************************************)
\* default of the threshold parameter
threshold == 80

\* the substring stage on the normalised names
\* substring_stage with the first name always taken for the shorter
substring_stage_first_shorter(n1_norm, n2_norm) ==
  /\ n1_norm # <<>>
  /\ n2_norm # <<>>
  /\ Len(Split(n1_norm)) >= 2
  /\ 10 * Len(n1_norm) >= 7 * Len(n2_norm)
  /\ Contains(n2_norm, n1_norm)

substring_stage(n1_norm, n2_norm) ==
  /\ n1_norm # <<>>
  /\ n2_norm # <<>>
  /\ LET shorter == IF Len(n1_norm) <= Len(n2_norm) THEN n1_norm ELSE n2_norm
         longer == IF Len(n1_norm) <= Len(n2_norm) THEN n2_norm ELSE n1_norm
         word_count == Len(Split(shorter))
     IN /\ word_count >= 2
        \* length_ratio >= 0.7
        /\ Len(longer) > 0
        /\ 10 * Len(shorter) >= 7 * Len(longer)
        /\ Contains(longer, shorter)

\* the stages of fuzzy_match after the blank test, on n1, n2 (lower-cased,
\* stripped) and the two normalised names
match_stages(n1, n2, n1_norm, n2_norm) ==
  IF n1 = <<>> \/ n2 = <<>> THEN FALSE
  ELSE IF n1 = n2 THEN TRUE
  ELSE IF n1_norm = n2_norm /\ n1_norm # <<>> THEN TRUE
  ELSE IF substring_stage(n1_norm, n2_norm) THEN TRUE
  ELSE IF ScoreAtLeast(token_set_ratio(n1, n2), 90) THEN TRUE
  ELSE IF ScoreAtLeast(partial_ratio(n1, n2), 95) THEN TRUE
  ELSE ScoreAtLeast(ratio(n1, n2), threshold)

fuzzy_match(name1, name2) ==
  IF isna(name1) \/ isna(name2) THEN FALSE
  ELSE match_stages(Strip(Lower(str(name1))), Strip(Lower(str(name2))),
                    normalize_tp_name(name1), normalize_tp_name(name2))

(***************************************************************************)
(* cost_matches: an argument is a number (an integer count of tenths), the *)
(* missing value (None / NaN) or a value float() cannot parse.             *)
(***************************************************************************)
Num(n) == [t |-> "num", n |-> n]
NoCost == [t |-> "nan", n |-> 0]
BadCost == [t |-> "str", n |-> 0]
NumStr(n) == [t |-> "numstr", n |-> n]

\* tolerance = 0.01 as the fraction 1 / tolerance_den
tolerance_den == 100

\* float(x) succeeds on numbers and on text that spells a number
is_float(c) == c.t \in {"num", "numstr"}

\* cost_matches without the two tests for zero: the division by zero of
\* two zero costs raises, and the except clause returns False
cost_matches_zero_div(cost1, cost2) ==
  IF cost1.t = "nan" \/ cost2.t = "nan" THEN FALSE
  ELSE IF ~is_float(cost1) \/ ~is_float(cost2) THEN FALSE
  ELSE LET d == Abs(cost1.n - cost2.n)
           m == Max2(cost1.n, cost2.n)
       IN IF m > 0 THEN tolerance_den * d <= m
          ELSE IF m < 0 THEN tolerance_den * d >= m
          ELSE FALSE

cost_matches(cost1, cost2) ==
  IF cost1.t = "nan" \/ cost2.t = "nan" THEN FALSE
  \* float() raises, the except clause returns False
  ELSE IF ~is_float(cost1) \/ ~is_float(cost2) THEN FALSE
  ELSE IF cost1.n = 0 /\ cost2.n = 0 THEN TRUE
  ELSE IF cost1.n = 0 \/ cost2.n = 0 THEN FALSE
  \* abs(cost1 - cost2) / max(cost1, cost2) <= tolerance
  ELSE LET d == Abs(cost1.n - cost2.n)
           m == Max2(cost1.n, cost2.n)
       IN IF m > 0 THEN tolerance_den * d <= m ELSE tolerance_den * d >= m

(***************************************************************************)
(* Uploaded files and their loading                                        *)
(*                                                                         *)
(* An uploaded file is [uploaded, columns, rows]: the header row and the   *)
(* data rows, each row a tuple of cells in header order.                   *)
(***************************************************************************)
NoFile == [uploaded |-> FALSE, columns |-> <<>>, rows |-> <<>>]
File(columns, rows) == [uploaded |-> TRUE, columns |-> columns, rows |-> rows]

\* None, for a column name or a job number
None == <<>>

\* row[col]
Cell(columns, row, col) == row[IndexIn(columns, col)]

\* row.get(col, '') if col else ''
CellOrBlank(columns, row, col) ==
  IF col = None THEN StrCell(<<>>) ELSE Cell(columns, row, col)

\* find_column walking the columns instead of the candidates: the first
\* column, in the table's order, that any candidate names
find_column_first_header(columns, candidates) ==
  LET named == {j \in 1..Len(columns) :
                  \E i \in 1..Len(candidates) :
                    Strip(Lower(columns[j])) = Lower(candidates[i])}
  IN IF named = {} THEN None
     ELSE columns[CHOOSE j \in named : \A j2 \in named : j <= j2]

find_column(columns, candidates) ==
  LET \* col_map = {c.lower().strip(): c for c in df.columns}: a later
      \* column replaces an earlier one with the same key
      Key(c) == Strip(Lower(c))
      InMap(k) == \E j \in 1..Len(columns) : Key(columns[j]) = k
      col_map(k) ==
        columns[CHOOSE j \in 1..Len(columns) :
                  /\ Key(columns[j]) = k
                  /\ \A j2 \in (j + 1)..Len(columns) : Key(columns[j2]) # k]
      hits == {i \in 1..Len(candidates) : InMap(Lower(candidates[i]))}
  IN IF hits = {} THEN None
     ELSE LET first == CHOOSE i \in hits : \A i2 \in hits : i <= i2
          IN col_map(Lower(candidates[first]))

\* find_column on the column labels of a data frame, which are cells: the
\* lower() of a label that is not text raises, and the except clause
\* returns None
find_column_try(labels, candidates) ==
  IF \E j \in 1..Len(labels) : labels[j].t # "str" THEN None
  ELSE find_column([j \in 1..Len(labels) |-> labels[j].v], candidates)

\* extract_tm_number with the test for the TM prefix made before the value
\* is upper-cased
extract_tm_number_prefix_raw(value) ==
  IF isna(value) THEN None
  ELSE LET val == Strip(str(value))
       IN IF val = <<>> \/ Lower(val) = <<"n", "a", "n">> THEN None
          ELSE IF StartsWith(val, <<"T", "M">>) THEN Upper(val)
          ELSE <<"T", "M">> \o Upper(val)

extract_tm_number(value) ==
  IF isna(value) THEN None
  ELSE LET val == Strip(str(value))
       IN IF val = <<>> \/ Lower(val) = <<"n", "a", "n">> THEN None
          ELSE IF StartsWith(Upper(val), <<"T", "M">>) THEN Upper(val)
          ELSE <<"T", "M">> \o Upper(val)

is_valid_tm_number(tm_no) ==
  IF tm_no = None THEN FALSE
  ELSE IF Strip(tm_no) = <<>> \/ Upper(Strip(tm_no)) = <<"T", "M">> THEN FALSE
  ELSE TRUE

\* pd.to_numeric(x, errors='coerce').fillna(0) on one cost cell: a number,
\* a string that parses as a number ("numstr"), other text, or empty
to_numeric_fillna(c) == IF c.t \in {"num", "numstr"} THEN c.n ELSE 0

\* safe_strftime(parse_date(x)): a date cell carries its '%b %Y' label
NoDate == <<"N", "o", " ", "D", "a", "t", "e">>
month_of(c) == IF c.t = "date" THEN c.v ELSE NoDate

\* safe_get_unique(series), as a set
safe_get_unique(cells) ==
  {str(c) : c \in {x \in cells : ~isna(x) /\ Strip(str(x)) # <<>>}}

tracker_tm_no_aliases ==
  <<<<"R", "E", "P", "O", "R", "T", " ", "T", "M", " ", "N", "O", ".">>, <<"R", "E", "P", "O", "R", "T", " ", "T", "M", " ", "N", "O">>, <<"T", "M", " ", "N", "O">>, <<"T", "M", " ", "N", "O", ".">>, <<"T", "M", "N", "O">>>>
tracker_tp_name_aliases ==
  <<<<"R", "E", "P", "O", "R", "T", " ", "T", "P", "/", "D", "C", " ", "N", "A", "M", "E", " ", "(", "I", "F", " ", "A", "P", "P", "L", "I", "C", "A", "B", "L", "E", ")">>, <<"R", "E", "P", "O", "R", "T", " ", "T", "P", "/", "D", "C", " ", "N", "A", "M", "E">>,
    <<"T", "P", " ", "N", "A", "M", "E">>, <<"T", "P", "/", "D", "C", " ", "N", "A", "M", "E">>>>
tracker_ff_date_aliases ==
  <<<<"F", "F", " ", "I", "N", "S", "P", "E", "C", "T", "I", "O", "N", " ", "D", "A", "T", "E">>, <<"F", "F", " ", "D", "A", "T", "E">>, <<"I", "N", "S", "P", "E", "C", "T", "I", "O", "N", " ", "D", "A", "T", "E">>>>
tracker_po_type_aliases == <<<<"P", "O", " ", "T", "Y", "P", "E">>, <<"P", "O", "_", "T", "Y", "P", "E">>, <<"P", "O", "T", "Y", "P", "E">>>>
tracker_status_aliases == <<<<"S", "T", "A", "T", "U", "S">>>>
tracker_client_aliases ==
  <<<<"C", "L", "I", "E", "N", "T", " ", "N", "A", "M", "E">>, <<"C", "L", "I", "E", "N", "T", "_", "N", "A", "M", "E">>, <<"C", "L", "I", "E", "N", "T", "N", "A", "M", "E">>, <<"C", "L", "I", "E", "N", "T">>>>

tm_job_aliases ==
  <<<<"j", "o", "b", "n", "o">>, <<"j", "o", "b", " ", "n", "o">>, <<"j", "o", "b", "_", "n", "o">>, <<"j", "o", "b", "n", "u", "m", "b", "e", "r">>, <<"j", "o", "b", " ", "n", "u", "m", "b", "e", "r">>, <<"j", "o", "b">>>>
tm_tp_aliases ==
  <<<<"t", "r", "e", "e", "p", "r", "o", "f", "e", "s", "s", "i", "o", "n", "a", "l">>, <<"t", "r", "e", "e", " ", "p", "r", "o", "f", "e", "s", "s", "i", "o", "n", "a", "l">>, <<"t", "p", "n", "a", "m", "e">>, <<"t", "p", " ", "n", "a", "m", "e">>,
    <<"t", "p", "_", "n", "a", "m", "e">>, <<"c", "o", "n", "t", "r", "a", "c", "t", "o", "r">>>>
tm_cost_aliases ==
  <<<<"t", "p", "c", "o", "s", "t">>, <<"t", "p", " ", "c", "o", "s", "t">>, <<"t", "p", "_", "c", "o", "s", "t">>, <<"c", "o", "s", "t">>, <<"a", "m", "o", "u", "n", "t">>, <<"t", "o", "t", "a", "l">>>>

xero_inv_aliases ==
  <<<<"i", "n", "v", "o", "i", "c", "e", "n", "u", "m", "b", "e", "r">>, <<"i", "n", "v", "o", "i", "c", "e", " ", "n", "u", "m", "b", "e", "r">>, <<"i", "n", "v", "o", "i", "c", "e", "_", "n", "u", "m", "b", "e", "r">>, <<"i", "n", "v", "o", "i", "c", "e", " ", "n", "o">>,
    <<"i", "n", "v", "n", "o">>>>
xero_contact_aliases ==
  <<<<"c", "o", "n", "t", "a", "c", "t", "n", "a", "m", "e">>, <<"c", "o", "n", "t", "a", "c", "t", " ", "n", "a", "m", "e">>, <<"c", "o", "n", "t", "a", "c", "t", "_", "n", "a", "m", "e">>, <<"n", "a", "m", "e">>, <<"s", "u", "p", "p", "l", "i", "e", "r">>>>
xero_total_aliases ==
  <<<<"t", "o", "t", "a", "l">>, <<"a", "m", "o", "u", "n", "t">>, <<"i", "n", "v", "o", "i", "c", "e", "t", "o", "t", "a", "l">>, <<"i", "n", "v", "o", "i", "c", "e", " ", "t", "o", "t", "a", "l">>>>

\* The tracker as the script holds it after loading: the resolved columns
\* and the rows with a valid TM number, each with its derived fields.
TrackerRow(columns, r, tm_no_col, tp_name_col, ff_date_col) ==
  [raw |-> r,
   TM_NO |-> extract_tm_number(Cell(columns, r, tm_no_col)),
   TP_NAME |-> Cell(columns, r, tp_name_col),
   MONTH |-> IF ff_date_col # None
             THEN month_of(Cell(columns, r, ff_date_col))
             ELSE NoDate]

ValidRow(r) == is_valid_tm_number(r.TM_NO)

LoadTrackerWith(file, tm_no_col, tp_name_col, ff_date_col, po_type_col, status_col, client_col) ==
  [ok |-> file.uploaded /\ tm_no_col # None /\ tp_name_col # None,
   columns |-> file.columns,
   ff_date_col |-> ff_date_col, po_type_col |-> po_type_col,
   status_col |-> status_col, client_col |-> client_col,
   rows |-> IF file.uploaded /\ tm_no_col # None /\ tp_name_col # None
            THEN SelectSeq([k \in 1..Len(file.rows) |->
                             TrackerRow(file.columns, file.rows[k], tm_no_col,
                                        tp_name_col, ff_date_col)],
                           ValidRow)
            ELSE <<>>]

LoadTracker(file) ==
  LoadTrackerWith(file,
                  find_column(file.columns, tracker_tm_no_aliases),
                  find_column(file.columns, tracker_tp_name_aliases),
                  find_column(file.columns, tracker_ff_date_aliases),
                  find_column(file.columns, tracker_po_type_aliases),
                  find_column(file.columns, tracker_status_aliases),
                  find_column(file.columns, tracker_client_aliases))

ReportRow(columns, r, key_col, name_col, cost_col) ==
  [raw |-> r,
   TM_NO |-> extract_tm_number(Cell(columns, r, key_col)),
   TP_NAME |-> Cell(columns, r, name_col),
   COST |-> to_numeric_fillna(Cell(columns, r, cost_col))]

LoadReportWith(file, key_col, name_col, cost_col) ==
  IF file.uploaded /\ key_col # None /\ name_col # None /\ cost_col # None
  THEN [ok |-> TRUE,
        rows |-> SelectSeq([k \in 1..Len(file.rows) |->
                              ReportRow(file.columns, file.rows[k], key_col,
                                        name_col, cost_col)],
                           ValidRow)]
  ELSE [ok |-> FALSE, rows |-> <<>>]

\* The TM report or the Xero report after loading; ok is FALSE when the
\* script leaves the data frame None.
LoadReport(file, key_aliases, name_aliases, cost_aliases) ==
  LoadReportWith(file,
                 find_column(file.columns, key_aliases),
                 find_column(file.columns, name_aliases),
                 find_column(file.columns, cost_aliases))

LoadTM(file) == LoadReport(file, tm_job_aliases, tm_tp_aliases, tm_cost_aliases)
LoadXero(file) ==
  LoadReport(file, xero_inv_aliases, xero_contact_aliases, xero_total_aliases)

(***************************************************************************)
(* Bounds and the uploads the model draws from                             *)
(***************************************************************************)
\* rows in the three uploaded files together
MaxRows == 3
\* sidebar choices narrowed at a time: filter options deselected plus
\* contractors excluded
MaxNarrowed == 1

DEFAULT_EXCLUDED_TPS ==
  {<<"P", "e", "t", "e", "r", " ", "D", "u", "b", "i", "e", "z", " ", "T", "r", "e", "e", " ", "S", "o", "l", "u", "t", "i", "o", "n", "s">>, <<"A", "u", "g", "e", "r">>, <<"Z", "a", "n", "e", " ", "D", "u", "b", "i", "e", "z", " ", "T", "r", "e", "e", " ", "S", "o", "l", "u", "t", "i", "o", "n", "s">>,
   <<"J", "o", "r", "d", "e", "n", " ", "P", "o", "n", "t", "i", "n", " ", "T", "r", "e", "e", " ", "S", "o", "l", "u", "t", "i", "o", "n", "s">>}

DateCell(label) == [t |-> "date", v |-> label]

\* a tracker without the optional PO TYPE, STATUS and CLIENT NAME columns
TrackerColumns ==
  <<<<"T", "M", " ", "N", "O">>, <<"T", "P", " ", "N", "A", "M", "E">>, <<"F", "F", " ", "D", "A", "T", "E">>>>

TMColumns ==
  <<<<"J", "o", "b", "N", "o">>, <<"T", "P", "N", "a", "m", "e">>, <<"T", "P", "C", "o", "s", "t">>>>
TMColumnsNoCost ==
  <<<<"J", "o", "b", "N", "o">>, <<"T", "P", "N", "a", "m", "e">>, <<"P", "r", "i", "c", "e">>>>

XeroColumns ==
  <<<<"I", "n", "v", "N", "o">>, <<"N", "a", "m", "e">>, <<"T", "o", "t", "a", "l">>>>
XeroColumnsNoName ==
  <<<<"I", "n", "v", "N", "o">>, <<"P", "a", "y", "e", "e">>, <<"T", "o", "t", "a", "l">>>>

\* the rows the uploads are made of: job 1 under the names of one
\* contractor and of another, a second job, a numeric name, a cost that is
\* no number, keys that are not valid
TrackerRowPool ==
  {<<NumCell(<<"1">>), StrCell(name), DateCell(<<"J", "a", "n", " ", "2", "0", "2", "4">>)>> :
     name \in {<<"A", "u", "g", "e", "r", " ", "L", "t", "d">>, <<"A", "u", "g", "e", "r">>}}
  \cup
  {<<NumCell(<<"2">>), StrCell(<<"A", "u", "g", "e", "r", " ", "L", "t", "d">>), NaN>>,
   <<StrCell(<<"T", "M">>), StrCell(<<"A", "u", "g", "e", "r">>), NaN>>}

TMRowPool ==
  {<<NumCell(<<"1">>), StrCell(<<"A", "u", "g", "e", "r">>), Num(0)>>,
   <<NumCell(<<"1">>), StrCell(<<"O", "a", "k">>), BadCost>>,
   <<NumCell(<<"1">>), StrCell(<<"A", "u", "g", "e", "r">>), Num(1000)>>,
   <<NumCell(<<"1">>), StrCell(<<"A", "U", "G", "E", "R">>), Num(1200)>>,
   <<NumCell(<<"1">>), StrCell(<<"A", "u", "g", "e", "r", " ", "L", "t", "d">>), Num(1000)>>,
   <<NumCell(<<"1">>), NumCell(<<"1", "2">>), Num(1000)>>,
   <<NaN, StrCell(<<"A", "u", "g", "e", "r">>), Num(1000)>>}

XeroRowPool ==
  {<<StrCell(<<"T", "M", "1">>), StrCell(<<"A", "u", "g", "e", "r">>), Num(1005)>>,
   <<StrCell(<<"T", "M", "1">>), StrCell(<<"O", "a", "k">>), Num(1005)>>,
   <<StrCell(<<"T", "M", "1">>), NumCell(<<"1", "2">>), Num(1005)>>,
   <<StrCell(<<"t", "m">>), StrCell(<<"A", "u", "g", "e", "r">>), Num(1005)>>}

\* the sequences over S of length n
RECURSIVE SeqsOfLen(_, _)
SeqsOfLen(S, n) ==
  IF n = 0 THEN {<<>>}
  ELSE {Append(s, x) : s \in SeqsOfLen(S, n - 1), x \in S}

\* the uploads with exactly n data rows; a report can also be missing or
\* lack a required column
TrackerFiles(n) == {File(TrackerColumns, rows) : rows \in SeqsOfLen(TrackerRowPool, n)}
TMFiles(n) ==
  {File(TMColumns, rows) : rows \in SeqsOfLen(TMRowPool, n)}
    \cup (IF n = 0 THEN {NoFile, File(TMColumnsNoCost, <<>>)} ELSE {})
XeroFiles(n) ==
  {File(XeroColumns, rows) : rows \in SeqsOfLen(XeroRowPool, n)}
    \cup (IF n = 0 THEN {NoFile, File(XeroColumnsNoName, <<>>)} ELSE {})


(***************************************************************************)
(* The session: loaded tables, sidebar widgets, and the reconciliation run *)
(***************************************************************************)
VARIABLES
  tracker_df,              \* LoadTracker of the uploaded tracker
  tm_df,                   \* LoadTM of the uploaded TM report
  xero_df,                 \* LoadXero of the uploaded Xero report
  match_mode,              \* the "Matching Mode" radio
  selected_months,         \* the four filter multiselects
  selected_po_types,
  selected_statuses,
  selected_clients,
  excluded_tps,            \* the "Exclude TPs" multiselect
  pc,                      \* "idle", "loop", "done" or "stopped"
  idx,                     \* position of the row loop in the driving table
  results,                 \* category -> list of records
  processed_combinations,  \* TM vs Xero: the combo keys seen so far
  warnings,                \* st.warning calls of the run
  errors,                  \* st.error calls of the run
  summary,                 \* the figures computed after the loop
  call                     \* a direct call of one of the helper functions

inputs == <<tracker_df, tm_df, xero_df>>
widgets == <<match_mode, selected_months, selected_po_types, selected_statuses,
             selected_clients, excluded_tps>>
run == <<pc, idx, results, processed_combinations, warnings, errors, summary>>
vars == <<inputs, widgets, run, call>>

TrackerVsTM == "Tracker vs TM"
TMVsXero == "TM vs Xero"
ThreeWay == "3-way Full"
Modes == {TrackerVsTM, TMVsXero, ThreeWay}

Categories ==
  <<"matched", "missing_in_tm", "missing_in_xero", "tp_mismatch_tm",
    "tp_mismatch_xero", "no_quote_in_tm", "cost_mismatch">>

EmptyResults == [c \in Range(Categories) |-> <<>>]
NoSummary ==
  [total_matched |-> 0, total_mismatches |-> 0, match_pct |-> Score0,
   mismatch_summary |-> <<>>, all_mismatches |-> <<>>, computed |-> FALSE]

\* a call of a helper: the function, its arguments, and the value returned
NoCall == [fn |-> "", args |-> <<>>, returned |-> FALSE, ret |-> FALSE]
Call(fn, args) == [fn |-> fn, args |-> args, returned |-> FALSE, ret |-> FALSE]

\* the options of the sidebar multiselects
TrackerCells(col) ==
  {Cell(tracker_df.columns, tracker_df.rows[k].raw, col) :
     k \in 1..Len(tracker_df.rows)}
all_months ==
  {tracker_df.rows[k].MONTH : k \in 1..Len(tracker_df.rows)} \cup {NoDate}
all_po_types ==
  IF tracker_df.po_type_col # None
  THEN safe_get_unique(TrackerCells(tracker_df.po_type_col)) ELSE {}
all_statuses ==
  IF tracker_df.status_col # None
  THEN safe_get_unique(TrackerCells(tracker_df.status_col)) ELSE {}
all_clients ==
  IF tracker_df.client_col # None
  THEN safe_get_unique(TrackerCells(tracker_df.client_col)) ELSE {}
all_tracker_tps ==
  safe_get_unique({tracker_df.rows[k].TP_NAME : k \in 1..Len(tracker_df.rows)})

\* series.isin(values): a text cell is in the list when its text is; a
\* numeric or empty cell never equals a string of the list
isin(cell, values) == cell.t = "str" /\ cell.v \in values

\* series.astype(str).isin(values)
astype_str_isin(cell, values) == str(cell) \in values

\* filter_mask without the exclusion of contractors
filter_mask_all_tps(row) ==
  /\ row.MONTH \in selected_months
  /\ (tracker_df.po_type_col # None /\ selected_po_types # {}) =>
       astype_str_isin(Cell(tracker_df.columns, row.raw, tracker_df.po_type_col),
                       selected_po_types)
  /\ (tracker_df.status_col # None /\ selected_statuses # {}) =>
       astype_str_isin(Cell(tracker_df.columns, row.raw, tracker_df.status_col),
                       selected_statuses)
  /\ (tracker_df.client_col # None /\ selected_clients # {}) =>
       astype_str_isin(Cell(tracker_df.columns, row.raw, tracker_df.client_col),
                       selected_clients)

filter_mask(row) ==
  /\ row.MONTH \in selected_months
  /\ (tracker_df.po_type_col # None /\ selected_po_types # {}) =>
       astype_str_isin(Cell(tracker_df.columns, row.raw, tracker_df.po_type_col),
                       selected_po_types)
  /\ (tracker_df.status_col # None /\ selected_statuses # {}) =>
       astype_str_isin(Cell(tracker_df.columns, row.raw, tracker_df.status_col),
                       selected_statuses)
  /\ (tracker_df.client_col # None /\ selected_clients # {}) =>
       astype_str_isin(Cell(tracker_df.columns, row.raw, tracker_df.client_col),
                       selected_clients)
  /\ excluded_tps # {} => ~isin(row.TP_NAME, excluded_tps)

filtered_tracker == SelectSeq(tracker_df.rows, filter_mask)

\* tm_df[~tm_df['_TP_NAME'].isin(excluded_tps)] if excluded_tps else tm_df
NotExcluded(row) == ~isin(row.TP_NAME, excluded_tps)
filtered_tm ==
  IF excluded_tps # {} THEN SelectSeq(tm_df.rows, NotExcluded) ELSE tm_df.rows

\* df[df['_TM_NO'] == tm_no]
RowsWithKey(rows, tm_no) ==
  LET Same(r) == r.TM_NO = tm_no IN SelectSeq(rows, Same)

\* for _, r in rows.iterrows(): if fuzzy_match(name, r['_TP_NAME']): ... break
\* the position of the first matching row, 0 when the loop ends without one
FirstMatch(name, rows) ==
  LET hits == {k \in 1..Len(rows) : fuzzy_match(name, rows[k].TP_NAME)}
  IN IF hits = {} THEN 0 ELSE CHOOSE k \in hits : \A k2 \in hits : k <= k2

\* series.dropna().unique().tolist()
RECURSIVE Unique(_, _)
Unique(l, seen) ==
  IF l = <<>> THEN <<>>
  ELSE IF isna(Head(l)) \/ Head(l) \in seen THEN Unique(Tail(l), seen)
  ELSE <<Head(l)>> \o Unique(Tail(l), seen \cup {Head(l)})

NamesOf(rows) == Unique([k \in 1..Len(rows) |-> rows[k].TP_NAME], {})

\* ', '.join(list) raises TypeError when an item is not a str
JoinRaises(cells) == \E k \in 1..Len(cells) : cells[k].t # "str"
JoinNames(cells) == Join(<<",", " ">>, [k \in 1..Len(cells) |-> cells[k].v])

\* what one pass of a row loop does: append a record to a category, skip
\* the row (continue), or raise into the loop's except clause
Put(cat, rec) == [kind |-> "append", cat |-> cat, rec |-> rec]
Skip == [kind |-> "skip", cat |-> "", rec |-> <<>>]
Raise == [kind |-> "error", cat |-> "", rec |-> <<>>]

\* f"{diff_pct:.1f}%" as a count of tenths of a percent, where
\* diff_pct = diff / max_cost * 100 if max_cost > 0 else 0.  The format
\* rounds the float to the nearest tenth; a float that lies exactly half way
\* between two tenths (16.25 for the costs 120.0 and 100.5) goes to the even
\* one.
diff_pct_tenths(diff, max_cost) ==
  IF max_cost <= 0 THEN 0
  ELSE LET q == (1000 * diff) \div max_cost
           r == (1000 * diff) % max_cost
       IN IF 2 * r > max_cost \/ (2 * r = max_cost /\ q % 2 = 1) THEN q + 1 ELSE q

(***************************************************************************)
(* One pass of each row loop.  A pass is written as a chain of operators,  *)
(* each taking what the code has computed so far: the same-key rows and    *)
(* the position m (x) of the first name match among them, 0 for none.      *)
(***************************************************************************)
TrackerField(row, col) == CellOrBlank(tracker_df.columns, row.raw, col)

TrackerVsTMClassify(row, tm_matches, m) ==
  LET tm_no == row.TM_NO
      tracker_tp == row.TP_NAME
      client == TrackerField(row, tracker_df.client_col)
      status == TrackerField(row, tracker_df.status_col)
      po_type == TrackerField(row, tracker_df.po_type_col)
      ff_date == TrackerField(row, tracker_df.ff_date_col)
  IN IF tm_matches = <<>>
     THEN Put("missing_in_tm",
              [TM_NO |-> tm_no, Tracker_TP |-> tracker_tp, Client |-> client,
               PO_Type |-> po_type, Status |-> status, FF_Date |-> ff_date])
     ELSE IF m = 0
     THEN IF JoinRaises(NamesOf(tm_matches)) THEN Raise
          ELSE Put("tp_mismatch_tm",
                   [TM_NO |-> tm_no, Tracker_TP |-> tracker_tp,
                    TM_TPs |-> JoinNames(NamesOf(tm_matches)),
                    TM_Rows_Found |-> Len(tm_matches),
                    Client |-> client, Status |-> status])
     ELSE LET tm_tp == tm_matches[m].TP_NAME
              tm_cost == tm_matches[m].COST
          IN IF tm_cost = 0
             THEN Put("no_quote_in_tm",
                      [TM_NO |-> tm_no, Tracker_TP |-> tracker_tp, TM_TP |-> tm_tp,
                       TM_Cost |-> tm_cost, Client |-> client, Status |-> status,
                       FF_Inspection_Date |-> ff_date])
             ELSE Put("matched",
                      [TM_NO |-> tm_no, TP |-> tracker_tp, TM_Cost |-> tm_cost])

\* the body of "for _, row in filtered_tracker.iterrows()" in Tracker vs TM
TrackerVsTMPass(row) ==
  TrackerVsTMClassify(row, RowsWithKey(tm_df.rows, row.TM_NO),
                      FirstMatch(row.TP_NAME, RowsWithKey(tm_df.rows, row.TM_NO)))

\* combo_key with the name as it stands in the cell: names that differ in
\* case or in blanks at the ends make different combinations
combo_key_raw(row) ==
  <<row.TM_NO, IF ~isna(row.TP_NAME) THEN str(row.TP_NAME) ELSE <<>>>>

\* combo_key = (tm_no, str(tm_tp).lower().strip() if pd.notna(tm_tp) else '')
combo_key(row) ==
  <<row.TM_NO,
    IF ~isna(row.TP_NAME) THEN Strip(Lower(str(row.TP_NAME))) ELSE <<>>>>

\* the cost comparison shared by TM vs Xero and 3-way: the record for the
\* category the two costs fall in
CostRecord(tm_no, tp, tm_cost, xero_cost) ==
  IF ~cost_matches(Num(tm_cost), Num(xero_cost))
  THEN LET diff == Abs(tm_cost - xero_cost)
           max_cost == Max2(tm_cost, xero_cost)
       IN Put("cost_mismatch",
              [TM_NO |-> tm_no, TP |-> tp, TM_Cost |-> tm_cost,
               Xero_Total |-> xero_cost, Difference |-> diff,
               Diff_pct |-> diff_pct_tenths(diff, max_cost)])
  ELSE Put("matched", [TM_NO |-> tm_no, TP |-> tp, Cost |-> tm_cost])

\* the Xero side of a pass: tp is the name put in a cost record
XeroClassify(tm_no, tp, tm_tp, tm_cost, xero_matches, x) ==
  IF x = 0
  THEN IF JoinRaises(NamesOf(xero_matches)) THEN Raise
       ELSE Put("tp_mismatch_xero",
                [TM_NO |-> tm_no, TM_TP |-> tm_tp,
                 Xero_TPs |-> JoinNames(NamesOf(xero_matches)),
                 TM_Cost |-> tm_cost, Xero_Rows_Found |-> Len(xero_matches)])
  ELSE CostRecord(tm_no, tp, tm_cost, xero_matches[x].COST)

\* the body of "for _, row in filtered_tm.iterrows()" after the combo_key
\* test, in TM vs Xero
TMVsXeroPass(row) ==
  IF RowsWithKey(xero_df.rows, row.TM_NO) = <<>>
  THEN Put("missing_in_xero",
           [TM_NO |-> row.TM_NO, TM_TP |-> row.TP_NAME, TM_Cost |-> row.COST])
  ELSE XeroClassify(row.TM_NO, row.TP_NAME, row.TP_NAME, row.COST,
                    RowsWithKey(xero_df.rows, row.TM_NO),
                    FirstMatch(row.TP_NAME, RowsWithKey(xero_df.rows, row.TM_NO)))

\* ThreeWayClassify with the Xero row looked for under the tracker's name
\* instead of the matched TM row's name
ThreeWayClassify_tracker_name(row, tm_matches, m) ==
  LET tm_no == row.TM_NO
      tracker_tp == row.TP_NAME
      client == TrackerField(row, tracker_df.client_col)
      status == TrackerField(row, tracker_df.status_col)
      ff_date == TrackerField(row, tracker_df.ff_date_col)
      tm_tp == tm_matches[m].TP_NAME
      tm_cost == tm_matches[m].COST
      xero_matches == RowsWithKey(xero_df.rows, tm_no)
  IN IF tm_matches = <<>>
     THEN Put("missing_in_tm",
              [TM_NO |-> tm_no, Tracker_TP |-> tracker_tp, Client |-> client,
               Status |-> status])
     ELSE IF m = 0
     THEN IF JoinRaises(NamesOf(tm_matches)) THEN Raise
          ELSE Put("tp_mismatch_tm",
                   [TM_NO |-> tm_no, Tracker_TP |-> tracker_tp,
                    TM_TPs |-> JoinNames(NamesOf(tm_matches)),
                    TM_Rows_Found |-> Len(tm_matches), Client |-> client])
     ELSE IF tm_cost = 0
     THEN Put("no_quote_in_tm",
              [TM_NO |-> tm_no, Tracker_TP |-> tracker_tp, TM_TP |-> tm_tp,
               Client |-> client, FF_Inspection_Date |-> ff_date])
     ELSE IF xero_matches = <<>>
     THEN Put("missing_in_xero",
              [TM_NO |-> tm_no, TP |-> tracker_tp, TM_Cost |-> tm_cost,
               Client |-> client])
     ELSE XeroClassify(tm_no, tracker_tp, tm_tp, tm_cost, xero_matches,
                       FirstMatch(tracker_tp, xero_matches))

\* the body of the 3-way loop from the TM lookup on: missing_in_tm,
\* tp_mismatch_tm, no_quote_in_tm and missing_in_xero end the pass
\* (continue); the Xero row is looked for under tm_tp, the matched TM
\* row's name
ThreeWayClassify(row, tm_matches, m) ==
  LET tm_no == row.TM_NO
      tracker_tp == row.TP_NAME
      client == TrackerField(row, tracker_df.client_col)
      status == TrackerField(row, tracker_df.status_col)
      ff_date == TrackerField(row, tracker_df.ff_date_col)
      tm_tp == tm_matches[m].TP_NAME
      tm_cost == tm_matches[m].COST
      xero_matches == RowsWithKey(xero_df.rows, tm_no)
  IN IF tm_matches = <<>>
     THEN Put("missing_in_tm",
              [TM_NO |-> tm_no, Tracker_TP |-> tracker_tp, Client |-> client,
               Status |-> status])
     ELSE IF m = 0
     THEN IF JoinRaises(NamesOf(tm_matches)) THEN Raise
          ELSE Put("tp_mismatch_tm",
                   [TM_NO |-> tm_no, Tracker_TP |-> tracker_tp,
                    TM_TPs |-> JoinNames(NamesOf(tm_matches)),
                    TM_Rows_Found |-> Len(tm_matches), Client |-> client])
     ELSE IF tm_cost = 0
     THEN Put("no_quote_in_tm",
              [TM_NO |-> tm_no, Tracker_TP |-> tracker_tp, TM_TP |-> tm_tp,
               Client |-> client, FF_Inspection_Date |-> ff_date])
     ELSE IF xero_matches = <<>>
     THEN Put("missing_in_xero",
              [TM_NO |-> tm_no, TP |-> tracker_tp, TM_Cost |-> tm_cost,
               Client |-> client])
     ELSE XeroClassify(tm_no, tracker_tp, tm_tp, tm_cost, xero_matches,
                       FirstMatch(tm_tp, xero_matches))

\* the body of "for _, row in filtered_tracker.iterrows()" in 3-way Full
ThreeWayPass(row) ==
  ThreeWayClassify(row, RowsWithKey(tm_df.rows, row.TM_NO),
                   FirstMatch(row.TP_NAME, RowsWithKey(tm_df.rows, row.TM_NO)))

(***************************************************************************)
(* Actions                                                                 *)
(***************************************************************************)
\* the table the selected mode iterates over
driving ==
  IF match_mode = TMVsXero THEN filtered_tm ELSE filtered_tracker

\* required_missing with the TM report tested in every mode and the Xero
\* report in none
required_missing_tm_only == ~tm_df.ok

\* the tables the selected mode stops without
required_missing ==
  IF match_mode = TrackerVsTM THEN ~tm_df.ok ELSE ~tm_df.ok \/ ~xero_df.ok

\* ClickRun with the results dict and the warnings of the last run kept
ClickRun_keep_results ==
  /\ pc # "loop"
  /\ tracker_df.ok
  /\ processed_combinations' = {}
  /\ summary' = NoSummary
  /\ idx' = 1
  /\ IF required_missing
     THEN /\ errors' = <<match_mode>>
          /\ pc' = "stopped"
     ELSE /\ errors' = <<>>
          /\ pc' = "loop"
  /\ UNCHANGED <<call, inputs, widgets, results, warnings>>

\* "Run Reconciliation" clicked: results start empty; st.stop() when a
\* required table is missing, otherwise the row loop of the mode begins
ClickRun ==
  /\ pc # "loop"
  /\ tracker_df.ok
  /\ results' = EmptyResults
  /\ processed_combinations' = {}
  /\ warnings' = <<>>
  /\ summary' = NoSummary
  /\ idx' = 1
  /\ IF required_missing
     THEN /\ errors' = <<match_mode>>
          /\ pc' = "stopped"
     ELSE /\ errors' = <<>>
          /\ pc' = "loop"
  /\ UNCHANGED <<call, inputs, widgets>>

\* Finish without the except clause: the exception of a pass ends the run
Finish_abort(out, tm_no) ==
  /\ results' = IF out.kind = "append"
                THEN [results EXCEPT ![out.cat] = Append(@, out.rec)]
                ELSE results
  /\ pc' = IF out.kind = "error" THEN "stopped" ELSE pc
  /\ errors' = IF out.kind = "error" THEN Append(errors, tm_no) ELSE errors
  /\ idx' = idx + 1
  /\ UNCHANGED <<call, inputs, widgets, warnings, summary>>

\* Finish with the category assigned instead of appended to: a second
\* record of a category replaces the first
Finish_overwrite(out, tm_no) ==
  /\ results' = IF out.kind = "append"
                THEN [results EXCEPT ![out.cat] = <<out.rec>>]
                ELSE results
  /\ warnings' = IF out.kind = "error" THEN Append(warnings, tm_no) ELSE warnings
  /\ idx' = idx + 1
  /\ UNCHANGED <<call, inputs, widgets, pc, errors, summary>>

\* what a pass does to the run: the record is appended, or the except
\* clause warns and continues
Finish(out, tm_no) ==
  /\ results' = IF out.kind = "append"
                THEN [results EXCEPT ![out.cat] = Append(@, out.rec)]
                ELSE results
  /\ warnings' = IF out.kind = "error" THEN Append(warnings, tm_no) ELSE warnings
  /\ idx' = idx + 1
  /\ UNCHANGED <<call, inputs, widgets, pc, errors, summary>>

TrackerVsTMRow ==
  /\ pc = "loop"
  /\ match_mode = TrackerVsTM
  /\ idx <= Len(filtered_tracker)
  /\ Finish(TrackerVsTMPass(filtered_tracker[idx]), filtered_tracker[idx].TM_NO)
  /\ UNCHANGED processed_combinations

\* TMVsXeroRow without the test of processed_combinations: a repeated
\* combination is classified again
TMVsXeroRow_nodedupe ==
  /\ pc = "loop"
  /\ match_mode = TMVsXero
  /\ idx <= Len(filtered_tm)
  /\ processed_combinations' =
       processed_combinations \cup {combo_key(filtered_tm[idx])}
  /\ Finish(TMVsXeroPass(filtered_tm[idx]), filtered_tm[idx].TM_NO)

TMVsXeroRow ==
  /\ pc = "loop"
  /\ match_mode = TMVsXero
  /\ idx <= Len(filtered_tm)
  /\ LET row == filtered_tm[idx]
     IN IF combo_key(row) \in processed_combinations
        THEN /\ Finish(Skip, row.TM_NO)
             /\ UNCHANGED processed_combinations
        ELSE /\ processed_combinations' = processed_combinations \cup {combo_key(row)}
             /\ Finish(TMVsXeroPass(row), row.TM_NO)

ThreeWayRow ==
  /\ pc = "loop"
  /\ match_mode = ThreeWay
  /\ idx <= Len(filtered_tracker)
  /\ Finish(ThreeWayPass(filtered_tracker[idx]), filtered_tracker[idx].TM_NO)
  /\ UNCHANGED processed_combinations

MismatchCategories == Range(Categories) \ {"matched"}

RECURSIVE SumLen(_, _)
SumLen(res, cats) ==
  IF cats = {} THEN 0
  ELSE LET c == CHOOSE c \in cats : TRUE
       IN Len(res[c]) + SumLen(res, cats \ {c})

\* the keys of the results dict as text, and the labels of the breakdown
KeyText ==
  [matched |-> <<"m", "a", "t", "c", "h", "e", "d">>,
   missing_in_tm |-> <<"m", "i", "s", "s", "i", "n", "g", "_", "i", "n", "_", "t", "m">>,
   missing_in_xero |-> <<"m", "i", "s", "s", "i", "n", "g", "_", "i", "n", "_", "x", "e", "r", "o">>,
   tp_mismatch_tm |-> <<"t", "p", "_", "m", "i", "s", "m", "a", "t", "c", "h", "_", "t", "m">>,
   tp_mismatch_xero |-> <<"t", "p", "_", "m", "i", "s", "m", "a", "t", "c", "h", "_", "x", "e", "r", "o">>,
   no_quote_in_tm |-> <<"n", "o", "_", "q", "u", "o", "t", "e", "_", "i", "n", "_", "t", "m">>,
   cost_mismatch |-> <<"c", "o", "s", "t", "_", "m", "i", "s", "m", "a", "t", "c", "h">>]

BreakdownLabel ==
  [missing_in_tm |-> "Missing in TM",
   missing_in_xero |-> "Missing in Xero",
   tp_mismatch_tm |-> "TP Mismatch (Tracker vs TM)",
   tp_mismatch_xero |-> "TP Mismatch (TM vs Xero)",
   no_quote_in_tm |-> "No Quote in TM (Cost=0)",
   cost_mismatch |-> "Cost Mismatch (>1%)"]

\* str.replace of one character, and str.title()
Replace(s, old, new) == [k \in 1..Len(s) |-> IF s[k] = old THEN new ELSE s[k]]
IsLetter(c) == c \in Range(Uppers) \cup Range(Lowers)
Title(s) ==
  [k \in 1..Len(s) |->
     IF k = 1 \/ ~IsLetter(s[k - 1]) THEN UpperChar(s[k]) ELSE LowerChar(s[k])]

\* key.replace('_', ' ').title()
MismatchType(key) == Title(Replace(KeyText[key], "_", " "))

\* mismatch_summary: an entry for each mismatch category that has records
mismatch_summary_of(res) ==
  [label \in {BreakdownLabel[c] : c \in {c \in MismatchCategories : res[c] # <<>>}} |->
     Len(res[CHOOSE c \in MismatchCategories : BreakdownLabel[c] = label])]

\* item_copy = item.copy(); item_copy['Mismatch Type'] = ...
Labelled(item, key) == ("Mismatch Type" :> MismatchType(key)) @@ item

\* all_mismatches: for key, items in results.items(), from the i-th key on
RECURSIVE all_mismatches_from(_, _)
all_mismatches_from(res, i) ==
  IF i > Len(Categories) THEN <<>>
  ELSE IF Categories[i] # "matched" /\ res[Categories[i]] # <<>>
       THEN [k \in 1..Len(res[Categories[i]]) |->
               Labelled(res[Categories[i]][k], Categories[i])]
            \o all_mismatches_from(res, i + 1)
       ELSE all_mismatches_from(res, i + 1)

\* match_pct = (total_matched / total_jobs * 100) if total_jobs > 0 else 0
match_pct_of(total_matched, total_jobs) ==
  IF total_jobs > 0 THEN Score(total_matched, total_jobs) ELSE Score0

\* the aggregation with a breakdown entry for every mismatch category,
\* empty ones included
Aggregate_all_entries(res) ==
  [total_matched |-> Len(res["matched"]),
   total_mismatches |-> SumLen(res, MismatchCategories),
   match_pct |-> match_pct_of(Len(res["matched"]),
                              Len(res["matched"]) + SumLen(res, MismatchCategories)),
   mismatch_summary |-> [label \in {BreakdownLabel[c] : c \in MismatchCategories} |->
                           Len(res[CHOOSE c \in MismatchCategories : BreakdownLabel[c] = label])],
   all_mismatches |-> all_mismatches_from(res, 1),
   computed |-> TRUE]

\* the summary, the breakdown and the full export of the results
Aggregate(res) ==
  [total_matched |-> Len(res["matched"]),
   total_mismatches |-> SumLen(res, MismatchCategories),
   match_pct |-> match_pct_of(Len(res["matched"]),
                              Len(res["matched"]) + SumLen(res, MismatchCategories)),
   mismatch_summary |-> mismatch_summary_of(res),
   all_mismatches |-> all_mismatches_from(res, 1),
   computed |-> TRUE]

\* "Calculate summary", after the loop
Summarize ==
  /\ pc = "loop"
  /\ idx > Len(driving)
  /\ summary' = Aggregate(results)
  /\ pc' = "done"
  /\ UNCHANGED <<call, inputs, widgets, idx, results, processed_combinations,
                 warnings, errors>>

\* a widget change reruns the script without the button: nothing of the
\* last run is shown any more
Rerun ==
  /\ pc' = "idle"
  /\ idx' = 1
  /\ results' = EmptyResults
  /\ processed_combinations' = {}
  /\ warnings' = <<>>
  /\ errors' = <<>>
  /\ summary' = NoSummary

SelectMode(m) ==
  /\ pc # "loop"
  /\ tracker_df.ok
  /\ m # match_mode
  /\ match_mode' = m
  /\ Rerun
  /\ UNCHANGED <<call, inputs, selected_months, selected_po_types, selected_statuses,
                 selected_clients, excluded_tps>>

SelectExcluded(tps) ==
  /\ pc # "loop"
  /\ tracker_df.ok
  /\ tps # excluded_tps
  /\ excluded_tps' = tps
  /\ Rerun
  /\ UNCHANGED <<call, inputs, match_mode, selected_months, selected_po_types,
                 selected_statuses, selected_clients>>

\* the four filter multiselects together
Deselected(months, po_types, statuses, clients) ==
  Cardinality(all_months \ months) + Cardinality(all_po_types \ po_types)
    + Cardinality(all_statuses \ statuses) + Cardinality(all_clients \ clients)

SelectFilters(months, po_types, statuses, clients) ==
  /\ pc # "loop"
  /\ tracker_df.ok
  /\ <<months, po_types, statuses, clients>> #
       <<selected_months, selected_po_types, selected_statuses, selected_clients>>
  /\ selected_months' = months
  /\ selected_po_types' = po_types
  /\ selected_statuses' = statuses
  /\ selected_clients' = clients
  /\ Rerun
  /\ UNCHANGED <<call, inputs, match_mode, excluded_tps>>

(***************************************************************************)
(* Specification                                                           *)
(***************************************************************************)
\* the tables loaded from the uploads with n data rows
LoadedTrackers == [n \in 0..MaxRows |-> {LoadTracker(f) : f \in TrackerFiles(n)}]
LoadedTMs == [n \in 0..MaxRows |-> {LoadTM(f) : f \in TMFiles(n)}]
LoadedXeros == [n \in 0..MaxRows |-> {LoadXero(f) : f \in XeroFiles(n)}]

\* the session once the files are uploaded: every widget at its default
Init ==
  /\ \E nt \in 0..MaxRows, nm \in 0..MaxRows, nx \in 0..MaxRows :
       /\ nt + nm + nx <= MaxRows
       /\ tracker_df \in LoadedTrackers[nt]
       /\ tm_df \in LoadedTMs[nm]
       /\ xero_df \in LoadedXeros[nx]
  /\ match_mode = TrackerVsTM
  /\ selected_months = all_months
  /\ selected_po_types = all_po_types
  /\ selected_statuses = all_statuses
  /\ selected_clients = all_clients
  /\ excluded_tps = DEFAULT_EXCLUDED_TPS \cap all_tracker_tps
  /\ pc = "idle"
  /\ idx = 1
  /\ results = EmptyResults
  /\ processed_combinations = {}
  /\ warnings = <<>>
  /\ errors = <<>>
  /\ summary = NoSummary
  /\ call = NoCall

\* the sidebar choices within the bound
Narrowed(months, po_types, statuses, clients, tps) ==
  Deselected(months, po_types, statuses, clients) + Cardinality(tps)

Next ==
  \/ ClickRun
  \/ TrackerVsTMRow
  \/ TMVsXeroRow
  \/ ThreeWayRow
  \/ Summarize
  \/ \E m \in Modes : SelectMode(m)
  \/ \E tps \in SUBSET all_tracker_tps :
       /\ Narrowed(selected_months, selected_po_types, selected_statuses,
                   selected_clients, tps) <= MaxNarrowed
       /\ SelectExcluded(tps)
  \/ \E months \in SUBSET all_months, po_types \in SUBSET all_po_types,
        statuses \in SUBSET all_statuses, clients \in SUBSET all_clients :
       /\ Narrowed(months, po_types, statuses, clients, excluded_tps) <= MaxNarrowed
       /\ SelectFilters(months, po_types, statuses, clients)

Spec == Init /\ [][Next]_vars

(***************************************************************************)
(* Properties of a run                                                     *)
(***************************************************************************)
\* the records of all seven categories together
Classified == SumLen(results, Range(Categories))

\* the rows among the first n of rows whose combination an earlier row has
Repeats(rows, n) ==
  Cardinality({k \in 1..n : \E j \in 1..(k - 1) :
                 combo_key(rows[j]) = combo_key(rows[k])})

\* the rows the loop has been through
Processed == idx - 1

InRun == pc \in {"loop", "done"}

\* C1 as stated: when a run has completed, the counts of the seven
\* categories sum to the number of rows of the driving table
C1_AsStated ==
  pc = "done" => Classified = Len(driving)

\* C1: at every point of a run, each row the loop has been through is in
\* exactly one of three groups: it has one record in one of the seven
\* categories, it raised and has one warning, or (TM vs Xero) it repeated
\* the combination of an earlier row and was skipped; so the seven counts
\* plus the warnings plus the skipped repeats are the rows processed, and
\* when the run has completed these are all the rows of the driving table
C1_Partition ==
  InRun =>
    /\ Classified + Len(warnings)
         + (IF match_mode = TMVsXero THEN Repeats(filtered_tm, Processed) ELSE 0)
       = Processed
    /\ match_mode = TMVsXero =>
         Classified + Len(warnings) = Cardinality(processed_combinations)
    /\ pc = "done" =>
         /\ Processed = Len(driving)
         /\ summary.total_matched + summary.total_mismatches = Classified

\* C1: a completed TM vs Xero run in which one row was classified and
\* another was skipped as a repeat of its combination
C1_Witness ==
  /\ pc = "done"
  /\ match_mode = TMVsXero
  /\ Len(driving) >= 2
  /\ Repeats(filtered_tm, Processed) >= 1
  /\ Classified >= 1

\* the records of each category that carry the job key tm_no
KeyedResults(tm_no) ==
  [c \in Range(Categories) |-> RowsWithKey(results[c], tm_no)]

\* the records of all categories together that carry the job key tm_no
ClassifiedWithKey(tm_no) == SumLen(KeyedResults(tm_no), Range(Categories))

\* the warnings that name the job key tm_no
WarnedWithKey(tm_no) ==
  Cardinality({k \in 1..Len(warnings) : warnings[k] = tm_no})

\* the rows of the driving table the loop has been through, with key tm_no
ProcessedWithKey(tm_no) ==
  Cardinality({k \in 1..Processed : driving[k].TM_NO = tm_no})

\* the repeats of an earlier combination among those, in TM vs Xero
RepeatsWithKey(tm_no) ==
  IF match_mode # TMVsXero THEN 0
  ELSE Cardinality({k \in 1..Processed :
         /\ filtered_tm[k].TM_NO = tm_no
         /\ \E j \in 1..(k - 1) : combo_key(filtered_tm[j]) = combo_key(filtered_tm[k])})

DrivingKeys == {driving[k].TM_NO : k \in 1..Len(driving)}

\* C2 as stated: when a run has completed, every job key of the driving
\* table has exactly one record in the seven categories together
C2_AsStated ==
  pc = "done" => \A tm_no \in DrivingKeys : ClassifiedWithKey(tm_no) = 1

\* C2: a run classifies rows, not job keys: at every point of a run the
\* records carrying a job key are as many as the processed driving rows
\* with that key, less those that raised (one warning each) and less those
\* skipped in TM vs Xero as a repeat of a (job key, name) combination; a
\* key that several rows carry under different names gets several records
C2_OnePerRow ==
  InRun =>
    \A tm_no \in DrivingKeys :
      ClassifiedWithKey(tm_no) + WarnedWithKey(tm_no) + RepeatsWithKey(tm_no)
        = ProcessedWithKey(tm_no)

\* C2: a completed Tracker vs TM run whose tracker has two rows with one
\* job key, both classified
C2_Witness ==
  /\ pc = "done"
  /\ match_mode = TrackerVsTM
  /\ \E tm_no \in DrivingKeys :
       /\ ProcessedWithKey(tm_no) = 2
       /\ ClassifiedWithKey(tm_no) = 2

\* the job keys of a sequence of rows or records
KeysOf(rows) == [k \in 1..Len(rows) |-> rows[k].TM_NO]

\* the processed rows of the driving table
ProcessedRows == SubSeq(driving, 1, Processed)

\* the category the Tertiary side gives a row whose Secondary match has the
\* name tm_tp and the nonzero cost tm_cost, by the order of the rules
XeroCategory(tm_cost, xero_matches, x) ==
  IF xero_matches = <<>> THEN "missing_in_xero"
  ELSE IF x = 0 THEN "tp_mismatch_xero"
  ELSE IF ~cost_matches(Num(tm_cost), Num(xero_matches[x].COST)) THEN "cost_mismatch"
  ELSE "matched"

\* the category the Secondary side gives a Primary row, "" when the row
\* goes on to the Tertiary side
TMCategory(tm_matches, m) ==
  IF tm_matches = <<>> THEN "missing_in_tm"
  ELSE IF m = 0 THEN "tp_mismatch_tm"
  ELSE IF tm_matches[m].COST = 0 THEN "no_quote_in_tm"
  ELSE ""

ThreeWayCategoryOf(row, tm_matches, m) ==
  IF TMCategory(tm_matches, m) # "" THEN TMCategory(tm_matches, m)
  ELSE XeroCategory(tm_matches[m].COST, RowsWithKey(xero_df.rows, row.TM_NO),
                    FirstMatch(tm_matches[m].TP_NAME,
                               RowsWithKey(xero_df.rows, row.TM_NO)))

\* the category of a Primary row in 3-way Full by the fixed order of rules
ThreeWayCategory(row) ==
  ThreeWayCategoryOf(row, RowsWithKey(tm_df.rows, row.TM_NO),
                     FirstMatch(row.TP_NAME, RowsWithKey(tm_df.rows, row.TM_NO)))

\* the category of a Primary row in Tracker vs TM by the order of rules
TrackerVsTMCategoryOf(tm_matches, m) ==
  IF TMCategory(tm_matches, m) # "" THEN TMCategory(tm_matches, m) ELSE "matched"

TrackerVsTMCategory(row) ==
  TrackerVsTMCategoryOf(RowsWithKey(tm_df.rows, row.TM_NO),
                        FirstMatch(row.TP_NAME, RowsWithKey(tm_df.rows, row.TM_NO)))

\* C3: in 3-way Full, at every point of the run, each category holds the
\* records of exactly the processed Primary rows that the first applicable
\* rule of the fixed order puts in it, in the order of the rows
C3_FixedOrder ==
  (InRun /\ match_mode = ThreeWay) =>
    \A c \in Range(Categories) :
      LET Falls(row) == ThreeWayCategory(row) = c
      IN KeysOf(results[c]) = KeysOf(SelectSeq(ProcessedRows, Falls))

\* C4: in Tracker vs TM, at every point of the run, each category holds the
\* records of exactly the processed Primary rows whose same-key Secondary
\* rows, scanned in table order up to the first name match, put them in it
C4_FirstMatch ==
  (InRun /\ match_mode = TrackerVsTM) =>
    \A c \in Range(Categories) :
      LET Falls(row) == TrackerVsTMCategory(row) = c
      IN KeysOf(results[c]) = KeysOf(SelectSeq(ProcessedRows, Falls))

\* the positions of all records of the run, as <<category, index>>
Records == {p \in Range(Categories) \X (1..MaxRows) : p[2] <= Len(results[p[1]])}

\* the TM contractor name a TM vs Xero record carries
TMNameIn(p) ==
  IF p[1] \in {"missing_in_xero", "tp_mismatch_xero"}
  THEN results[p[1]][p[2]].TM_TP ELSE results[p[1]][p[2]].TP

KeyIn(p) == results[p[1]][p[2]].TM_NO

\* a name lower-cased and trimmed, the empty text for a missing name
Folded(name) == IF isna(name) THEN <<>> ELSE Strip(Lower(str(name)))

\* C5 as stated: a completed TM vs Xero run has no two records with the
\* same job key whose TM contractor names have the same normalized form
C5_AsStated ==
  (pc = "done" /\ match_mode = TMVsXero) =>
    \A p \in Records, q \in Records :
      (p # q /\ KeyIn(p) = KeyIn(q)) =>
        normalize_tp_name(TMNameIn(p)) # normalize_tp_name(TMNameIn(q))

\* C5: in TM vs Xero the TM rows are deduplicated by job key and the name
\* lower-cased and trimmed, not by the normalized name: at every point of
\* the run no two records have the same job key and names equal up to case
\* and surrounding blanks, and every combination of a processed row is in
\* processed_combinations; names that differ by a legal suffix are
\* classified separately
C5_Dedupe ==
  (InRun /\ match_mode = TMVsXero) =>
    /\ \A p \in Records, q \in Records :
         (p # q /\ KeyIn(p) = KeyIn(q)) =>
           Folded(TMNameIn(p)) # Folded(TMNameIn(q))
    /\ processed_combinations =
         {<<ProcessedRows[k].TM_NO, Folded(ProcessedRows[k].TP_NAME)>> :
            k \in 1..Processed}

\* C5: a completed TM vs Xero run over two TM rows with one job key and
\* names that differ only in case, of which one was classified
C5_Witness ==
  /\ pc = "done"
  /\ match_mode = TMVsXero
  /\ Len(filtered_tm) = 2
  /\ filtered_tm[1].TM_NO = filtered_tm[2].TM_NO
  /\ filtered_tm[1].TP_NAME # filtered_tm[2].TP_NAME
  /\ Folded(filtered_tm[1].TP_NAME) = Folded(filtered_tm[2].TP_NAME)
  /\ Classified = 1

\* the name of the driving row in a record; the NameMismatchTertiary record
\* of 3-way Full carries the name of the Secondary match only
HasDrivingName(p) == ~(match_mode = ThreeWay /\ p[1] = "tp_mismatch_xero")
DrivingNameIn(p) ==
  IF match_mode = TMVsXero THEN TMNameIn(p)
  ELSE IF p[1] \in {"missing_in_tm", "tp_mismatch_tm", "no_quote_in_tm"}
  THEN results[p[1]][p[2]].Tracker_TP
  ELSE results[p[1]][p[2]].TP

\* the table a mode looks the driving rows up in first
LookedUp == IF match_mode = TMVsXero THEN xero_df.rows ELSE tm_df.rows

Excluded(row) == isin(row.TP_NAME, excluded_tps)

\* C6 as stated: at every point of a run no processed driving row is of an
\* excluded contractor, and no same-key row of the table it is looked up in
\* (its join candidates) is of an excluded contractor
C6_AsStated ==
  InRun =>
    \A k \in 1..Processed :
      /\ ~Excluded(driving[k])
      /\ \A j \in 1..Len(LookedUp) :
           LookedUp[j].TM_NO = driving[k].TM_NO => ~Excluded(LookedUp[j])

\* C6: exclusion removes rows from the driving table only (the tracker in
\* Tracker vs TM and 3-way Full, the TM report in TM vs Xero): at every
\* point of a run no row of the driving table and no driving name in a
\* record is of an excluded contractor; the table looked up in is used
\* whole, so an excluded contractor's row there can still be a candidate
C6_DrivingSide ==
  InRun =>
    /\ \A k \in 1..Len(driving) : ~Excluded(driving[k])
    /\ \A p \in Records :
         HasDrivingName(p) => ~isin(DrivingNameIn(p), excluded_tps)

\* C6: a completed Tracker vs TM run with a tracker row of an excluded
\* contractor left out, and another row matched through a TM row that
\* carries the excluded contractor's name
C6_Witness ==
  /\ pc = "done"
  /\ match_mode = TrackerVsTM
  /\ \E k \in 1..Len(tracker_df.rows) : Excluded(tracker_df.rows[k])
  /\ Len(filtered_tracker) = 1
  /\ Len(results["matched"]) = 1
  /\ Len(tm_df.rows) = 1
  /\ Excluded(tm_df.rows[1])

\* the tables a mode needs beside the tracker
RequiredTables ==
  IF match_mode = TrackerVsTM THEN {tm_df} ELSE {tm_df, xero_df}

\* C7: a run in a mode of which a required table is missing (not uploaded,
\* or a required column not found) stops at the click with one error: it
\* never enters the row loop, no row is processed, the seven categories
\* stay empty, there is no warning and no summary
C7_RejectedUpFront ==
  /\ InRun => \A df \in RequiredTables : df.ok
  /\ pc = "stopped" =>
       /\ \E df \in RequiredTables : ~df.ok
       /\ Len(errors) = 1
       /\ Processed = 0
       /\ results = EmptyResults
       /\ warnings = <<>>
       /\ summary = NoSummary

\* C7: a 3-way Full run stopped for the missing Xero report although the
\* tracker and the TM report hold rows to process
C7_Witness ==
  /\ pc = "stopped"
  /\ match_mode = ThreeWay
  /\ tm_df.ok
  /\ ~xero_df.ok
  /\ Len(filtered_tracker) >= 1
  /\ Len(tm_df.rows) >= 1

\* the pass of the selected mode over a row, and whether it raises
PassOf(row) ==
  IF match_mode = TrackerVsTM THEN TrackerVsTMPass(row)
  ELSE IF match_mode = ThreeWay THEN ThreeWayPass(row)
  ELSE TMVsXeroPass(row)

Raises(row) == PassOf(row).kind = "error"
Passes(row) == ~Raises(row)

\* the results with the outcome of a pass added
Added(res, out) ==
  IF out.kind = "append" THEN [res EXCEPT ![out.cat] = Append(@, out.rec)]
  ELSE res

\* the results of the row loop of the selected mode over rows, from row k
\* on, given the results res and the combinations seen so far
RECURSIVE RunOn(_, _, _, _)
RunOn(rows, k, res, seen) ==
  IF k > Len(rows) THEN res
  ELSE IF match_mode = TMVsXero /\ combo_key(rows[k]) \in seen
  THEN RunOn(rows, k + 1, res, seen)
  ELSE RunOn(rows, k + 1, Added(res, PassOf(rows[k])),
             seen \cup {combo_key(rows[k])})

\* the processed rows that reached their pass: all of them, but in TM vs
\* Xero those that did not repeat an earlier combination
ReachedPass ==
  {k \in 1..Processed :
     match_mode = TMVsXero =>
       \A j \in 1..(k - 1) : combo_key(driving[j]) # combo_key(driving[k])}

\* the rows among reached whose pass raised
RaisedIn(reached) == {k \in reached : Raises(driving[k])}

\* every row of raised has one warning, naming its job key, and no record;
\* every other row of reached has one record
Accounted(reached, raised) ==
  /\ Len(warnings) = Cardinality(raised)
  /\ \A k \in 1..Len(warnings) :
       \E j \in raised : driving[j].TM_NO = warnings[k]
  /\ Classified = Cardinality(reached \ raised)

Unlabelled(item) == [f \in (DOMAIN item) \ {"Mismatch Type"} |-> item[f]]

\* the records of the full export that carry the label of category c
ExportedFrom(all_mismatches, c) ==
  SelectSeq(all_mismatches, LAMBDA item : item["Mismatch Type"] = MismatchType(c))

\* the figures sum are consistent with the classifications res
Consistent(sum, res) ==
  /\ sum.total_matched = Len(res["matched"])
  /\ sum.total_mismatches =
       Len(res["missing_in_tm"]) + Len(res["missing_in_xero"])
         + Len(res["tp_mismatch_tm"]) + Len(res["tp_mismatch_xero"])
         + Len(res["no_quote_in_tm"]) + Len(res["cost_mismatch"])
  /\ sum.match_pct.sum > 0
  /\ IF sum.total_matched + sum.total_mismatches = 0
     THEN sum.match_pct.sim = 0
     ELSE sum.match_pct.sim * (sum.total_matched + sum.total_mismatches)
            = sum.total_matched * sum.match_pct.sum
  /\ DOMAIN sum.mismatch_summary =
       {BreakdownLabel[c] : c \in {c \in MismatchCategories : Len(res[c]) > 0}}
  /\ \A c \in MismatchCategories :
       Len(res[c]) > 0 => sum.mismatch_summary[BreakdownLabel[c]] = Len(res[c])
  /\ Len(sum.all_mismatches) = sum.total_mismatches
  /\ \A k \in 1..Len(sum.all_mismatches) :
       \E c \in MismatchCategories :
         sum.all_mismatches[k]["Mismatch Type"] = MismatchType(c)
  /\ \A c \in MismatchCategories :
       [k \in 1..Len(ExportedFrom(sum.all_mismatches, c)) |->
          Unlabelled(ExportedFrom(sum.all_mismatches, c)[k])] = res[c]

\* C15: the step that ends a run leaves the classifications as they are and
\* produces figures consistent with them: total matched is the size of
\* matched, total mismatched the sum of the sizes of the six other
\* categories, the percentage is matched over their sum times 100 and 0 when
\* the sum is 0, the breakdown has an entry exactly for the mismatch
\* categories that have records, and the full export holds the records of
\* each mismatch category, each under that category's label
C15_Aggregate ==
  [][(pc = "loop" /\ pc' = "done") =>
       (results' = results /\ Consistent(summary', results))]_vars

\* C15: a completed run with one record matched and one in a mismatch
\* category: 50 per cent, one breakdown entry, one record in the export
C15_Witness ==
  /\ pc = "done"
  /\ summary.total_matched = 1
  /\ summary.total_mismatches = 1
  /\ summary.match_pct = Score(1, 2)
  /\ Cardinality(DOMAIN summary.mismatch_summary) = 1
  /\ Len(summary.all_mismatches) = 1

\* the category of a Secondary row in TM vs Xero by the order of the rules
TMVsXeroCategory(row) ==
  XeroCategory(row.COST, RowsWithKey(xero_df.rows, row.TM_NO),
               FirstMatch(row.TP_NAME, RowsWithKey(xero_df.rows, row.TM_NO)))

\* the job keys of the rows that reached their pass and fall in category c,
\* in the order of the rows
KeysFalling(c) ==
  KeysOf([i \in 1..Len(SelectSeq([k \in 1..Processed |-> k],
                                 LAMBDA k : k \in ReachedPass /\ TMVsXeroCategory(driving[k]) = c)) |->
            driving[SelectSeq([k \in 1..Processed |-> k],
                              LAMBDA k : k \in ReachedPass /\ TMVsXeroCategory(driving[k]) = c)[i]]])

\* a cost mismatch record carries the absolute difference of its two costs
\* and that difference as a percentage of the larger cost, to the nearest
\* tenth
DifferenceShown(rec) ==
  /\ rec.Difference = Abs(rec.TM_Cost - rec.Xero_Total)
  /\ Max2(rec.TM_Cost, rec.Xero_Total) > 0
  /\ 2 * Abs(rec.Diff_pct * Max2(rec.TM_Cost, rec.Xero_Total) - 1000 * rec.Difference)
       <= Max2(rec.TM_Cost, rec.Xero_Total)

\* C18: in TM vs Xero, at every point of the run, each category holds the
\* records of exactly the Secondary rows processed so far that the rules put
\* in it (no same-key Tertiary row, no name match, costs that cost_matches
\* rejects, else matched), and every cost mismatch record carries the
\* difference and the percentage of its two costs
C18_TMVsXero ==
  (InRun /\ match_mode = TMVsXero) =>
    /\ \A c \in Range(Categories) : KeysOf(results[c]) = KeysFalling(c)
    /\ \A k \in 1..Len(results["cost_mismatch"]) :
         DifferenceShown(results["cost_mismatch"][k])

(***************************************************************************)
(* Direct calls of the helper functions: the session holds no upload, and  *)
(* one call is made with arguments drawn from a pool.                      *)
(***************************************************************************)
NoSession ==
  /\ tracker_df = LoadTracker(NoFile)
  /\ tm_df = LoadTM(NoFile)
  /\ xero_df = LoadXero(NoFile)
  /\ match_mode = TrackerVsTM
  /\ selected_months = {}
  /\ selected_po_types = {}
  /\ selected_statuses = {}
  /\ selected_clients = {}
  /\ excluded_tps = {}
  /\ pc = "idle"
  /\ idx = 1
  /\ results = EmptyResults
  /\ processed_combinations = {}
  /\ warnings = <<>>
  /\ errors = <<>>
  /\ summary = NoSummary

Returned(fn) == call.fn = fn /\ call.returned

\* costs in tenths of a unit, all multiples of half a unit, so that the
\* float arithmetic of the code is exact on them
CostPool ==
  {Num(0), Num(50), Num(990), Num(1000), Num(1005), Num(1010), Num(1020),
   Num(-50), Num(-1000), NumStr(1000), NoCost, BadCost}

InitCost ==
  /\ NoSession
  /\ \E cost1 \in CostPool, cost2 \in CostPool :
       call = Call("cost_matches", <<cost1, cost2>>)

CallCostMatches ==
  /\ call.fn = "cost_matches"
  /\ ~call.returned
  /\ call' = [call EXCEPT !.returned = TRUE,
                          !.ret = cost_matches(call.args[1], call.args[2])]
  /\ UNCHANGED <<inputs, widgets, run>>

NextCost == CallCostMatches

SpecCost == InitCost /\ [][NextCost]_vars

\* a cost argument that is a number, and its value
IsNumber(c) == c \in {Num(c.n), NumStr(c.n)}

\* C9: cost_matches returns False when an argument is missing or does not
\* parse, True for two zeros, False for exactly one zero, and otherwise
\* True exactly when |a - b| / max(a, b) <= 1/100 (a negative quotient
\* included); so (0, 0) is True, (0, 5) and (5, 0) are False,
\* (100, 100.5) is True and (100, 102) is False; every call returns
C9_CostMatches ==
  Returned("cost_matches") =>
    LET a == call.args[1]
        b == call.args[2]
        absdiff == IF a.n >= b.n THEN a.n - b.n ELSE b.n - a.n
        larger == IF a.n >= b.n THEN a.n ELSE b.n
    IN /\ call.ret \in BOOLEAN
       /\ (~IsNumber(a) \/ ~IsNumber(b)) => call.ret = FALSE
       /\ (IsNumber(a) /\ IsNumber(b)) =>
            /\ (a.n = 0 /\ b.n = 0) => call.ret = TRUE
            /\ ((a.n = 0) # (b.n = 0)) => call.ret = FALSE
            /\ (a.n # 0 /\ b.n # 0 /\ larger > 0) =>
                 call.ret = (100 * absdiff <= larger)
            /\ (a.n # 0 /\ b.n # 0 /\ larger < 0) => call.ret = TRUE
       /\ call.args = <<Num(0), Num(0)>> => call.ret = TRUE
       /\ call.args = <<Num(0), Num(50)>> => call.ret = FALSE
       /\ call.args = <<Num(50), Num(0)>> => call.ret = FALSE
       /\ call.args = <<Num(1000), Num(1005)>> => call.ret = TRUE
       /\ call.args = <<Num(1000), Num(1020)>> => call.ret = FALSE

\* C9: the call cost_matches(100, 100.5) has returned True
C9_Witness ==
  /\ Returned("cost_matches")
  /\ call.args = <<Num(1000), Num(1005)>>
  /\ call.ret = TRUE

NamePool ==
  {NaN, StrCell(<<>>), NumCell(<<"1", "2">>)} \cup
  {StrCell(name) : name \in
     {<<"A", "c", "m", "e", " ", "L", "t", "d">>, <<"a", "c", "m", "e">>, <<" ", "A", "C", "M", "E", " ">>, <<"k", "w">>, <<"k", "w", " ", "e", "d", "g", "e">>, <<"w", "a", "t", "s", "o", "n">>,
      <<"w", "a", "t", "s", "o", "n", " ", "&", " ", "p", "r", "i", "c", "e">>, <<"d", "c", " ", "a", "b", "c", " ", "d", "e">>, <<"a", "b", "c", " ", "d", "e", "f">>, <<"S", "m", "i", "t", "h", " ", "A", "r", "b", "o", "r", "i", "s", "t", "s">>,
      <<"J", "o", "n", "e", "s", " ", "&", " ", "C", "o">>, <<"1", "2">>}}

InitName ==
  /\ NoSession
  /\ \E name1 \in NamePool, name2 \in NamePool :
       call = Call("fuzzy_match", <<name1, name2>>)

CallFuzzyMatch ==
  /\ call.fn = "fuzzy_match"
  /\ ~call.returned
  /\ call' = [call EXCEPT !.returned = TRUE,
                          !.ret = fuzzy_match(call.args[1], call.args[2])]
  /\ UNCHANGED <<inputs, widgets, run>>

NextName == CallFuzzyMatch

SpecName == InitName /\ [][NextName]_vars

\* C10: fuzzy_match is commutative: what a call returns for two names is
\* what fuzzy_match gives for the same names in the other order, missing
\* and blank names included
C10_Commutative ==
  Returned("fuzzy_match") =>
    call.ret = fuzzy_match(call.args[2], call.args[1])

\* C10: a call has returned True for two different names that match by the
\* guarded substring stage and by no other stage
C10_Witness ==
  /\ Returned("fuzzy_match")
  /\ call.args = <<StrCell(<<"d", "c", " ", "a", "b", "c", " ", "d", "e">>), StrCell(<<"a", "b", "c", " ", "d", "e", "f">>)>>
  /\ call.ret = TRUE
  /\ ~ScoreAtLeast(token_set_ratio(<<"d", "c", " ", "a", "b", "c", " ", "d", "e">>, <<"a", "b", "c", " ", "d", "e", "f">>), 90)
  /\ ~ScoreAtLeast(partial_ratio(<<"d", "c", " ", "a", "b", "c", " ", "d", "e">>, <<"a", "b", "c", " ", "d", "e", "f">>), 95)
  /\ ~ScoreAtLeast(ratio(<<"d", "c", " ", "a", "b", "c", " ", "d", "e">>, <<"a", "b", "c", " ", "d", "e", "f">>), threshold)

(***************************************************************************)
(* normalize_tp_name called directly                                       *)
(***************************************************************************)
NormStems ==
  {<<"o", "a", "k">>, <<"d", "c", " ", "o", "a", "k">>, <<"t", "c", "r", " ", "o", "a", "k">>, <<"d", "c", " ", "t", "c", "r", " ", "o", "a", "k">>, <<"t", "c", "r", " ", "d", "c", " ", "o", "a", "k">>, <<"d", "c", " ", "d", "c", " ", "o", "a", "k">>}

NormEndings ==
  {<<>>, <<" ", "l", "t", "d">>, <<" ", "L", "i", "m", "i", "t", "e", "d">>, <<" ", "l", "t", "d", " ", "l", "i", "m", "i", "t", "e", "d">>, <<" ", "l", "i", "m", "i", "t", "e", "d", " ", "l", "t", "d">>, <<" ", "L", "t", "d", ".">>,
   <<" ", "t", "r", "e", "e", "s", " ", "u", "k">>, <<" ", "u", "k", " ", "t", "r", "e", "e", "s">>, <<" ", "t", "r", "e", "e", " ", "s", "e", "r", "v", "i", "c", "e", "s">>, <<" ", "S", "e", "r", "v", "i", "c", "e", "s", " ", "L", "T", "D", " ">>}

NormPool ==
  {NaN, NumCell(<<"1", "2">>), StrCell(<<>>), StrCell(<<" ", "O", "A", "K", " ">>)} \cup
  {StrCell(stem \o ending) : stem \in NormStems, ending \in NormEndings}

InitNorm ==
  /\ NoSession
  /\ \E name \in NormPool : call = Call("normalize_tp_name", <<name>>)

CallNormalize ==
  /\ call.fn = "normalize_tp_name"
  /\ ~call.returned
  /\ call' = [call EXCEPT !.returned = TRUE,
                          !.ret = normalize_tp_name(call.args[1])]
  /\ UNCHANGED <<inputs, widgets, run>>

NextNorm == CallNormalize

SpecNorm == InitNorm /\ [][NextNorm]_vars

\* C11: normalize_tp_name is idempotent: normalizing what a call returned
\* gives it back unchanged
C11_Idempotent ==
  Returned("normalize_tp_name") =>
    normalize_tp_name(StrCell(call.ret)) = call.ret

\* the name as the suffix loop receives it
Cleaned(name) == Strip(Lower(str(name)))

\* the first alias of aliases, in declared order, for which Test(name, alias)
\* holds, or 0
FirstAlias(Test(_, _), name, aliases) ==
  IF \E i \in 1..Len(aliases) : Test(name, aliases[i])
  THEN CHOOSE i \in 1..Len(aliases) :
         /\ Test(name, aliases[i])
         /\ \A h \in 1..(i - 1) : ~Test(name, aliases[h])
  ELSE 0

\* name less the first suffix that matches it, and nothing more
OneSuffixOff(name) ==
  IF FirstAlias(EndsWith, name, suffixes) = 0 THEN name
  ELSE Strip(SubSeq(name, 1, Len(name) - Len(suffixes[FirstAlias(EndsWith, name, suffixes)])))

\* name less the first prefix that matches it, and nothing more
OnePrefixOff(name) ==
  IF FirstAlias(StartsWith, name, prefixes) = 0 THEN name
  ELSE Strip(SubSeq(name, Len(prefixes[FirstAlias(StartsWith, name, prefixes)]) + 1, Len(name)))

RECURSIVE Stripped(_, _, _, _, _)
Stripped(Test(_, _), Off(_, _), name, aliases, i) ==
  IF i > Len(aliases) THEN <<>>
  ELSE IF Test(name, aliases[i])
       THEN <<i>> \o Stripped(Test, Off, Off(name, aliases[i]), aliases, i + 1)
       ELSE Stripped(Test, Off, name, aliases, i + 1)

SuffixOff(name, suffix) == Strip(SubSeq(name, 1, Len(name) - Len(suffix)))
PrefixOff(name, prefix) == Strip(SubSeq(name, Len(prefix) + 1, Len(name)))

StrippedSuffixes(name) == Stripped(EndsWith, SuffixOff, name, suffixes, 1)
StrippedPrefixes(name) == Stripped(StartsWith, PrefixOff, name, prefixes, 1)

\* the total length of the aliases at the positions in at
RECURSIVE LenOf(_, _)
LenOf(aliases, at) ==
  IF at = <<>> THEN 0 ELSE Len(aliases[Head(at)]) + LenOf(aliases, Tail(at))

\* name is text in lower case with no white space at either end
IsClean(name) == name = Strip(Lower(name))

KeyCores ==
  {<<>>, <<"4", "2">>, <<"t", "m", "4", "2">>, <<"T", "M", "4", "2">>, <<"T", "m">>, <<"T", "M">>, <<"t", "m">>, <<"n", "a", "n">>, <<"N", "a", "N">>,
   <<"N", "a", "n">>, <<"a", "1">>, <<"t", "m", " ", "7">>, <<"t">>, <<"n", "a", "n", "1">>}

KeyPads == {<<<<>>, <<>>>>, <<<<" ">>, <<>>>>, <<<<>>, <<" ">>>>, <<<<" ">>, <<" ", " ">>>>}

KeyPool ==
  {NaN, NumCell(<<"4", "2">>), NumCell(<<"4", "2", ".", "0">>)} \cup
  {StrCell(pad[1] \o core \o pad[2]) : core \in KeyCores, pad \in KeyPads}

InitKey ==
  /\ NoSession
  /\ \E value \in KeyPool : call = Call("extract_tm_number", <<value>>)

CallExtractTmNumber ==
  /\ call.fn = "extract_tm_number"
  /\ ~call.returned
  /\ call' = [call EXCEPT !.returned = TRUE,
                          !.ret = extract_tm_number(call.args[1])]
  /\ UNCHANGED <<inputs, widgets, run>>

NextKey == CallExtractTmNumber

SpecKey == InitKey /\ [][NextKey]_vars

\* the raw value trimmed and upper-cased
Trimmed(value) == Upper(Strip(str(value)))

\* the key the claim gives a value that is neither missing nor empty nor the
\* bare tag
TaggedKey(value) ==
  IF StartsWith(Trimmed(value), <<"T", "M">>) THEN Trimmed(value)
  ELSE <<"T", "M">> \o Trimmed(value)

\* C13 as stated: the key of a value is invalid exactly when the value is
\* missing, or trimmed is empty or the bare tag TM in any letter case; every
\* other value gives the valid key TaggedKey
C13_AsStated ==
  Returned("extract_tm_number") =>
    IF isna(call.args[1]) \/ Trimmed(call.args[1]) \in {<<>>, <<"T", "M">>}
    THEN ~is_valid_tm_number(call.ret)
    ELSE call.ret = TaggedKey(call.args[1]) /\ is_valid_tm_number(call.ret)

\* C13: the key of a value is invalid exactly when the value is missing, or
\* trimmed is empty, the text nan in any letter case, or the bare tag TM in
\* any letter case; every other value gives the valid key TaggedKey, so 42
\* and tm42 both give TM42
C13_JobKey ==
  Returned("extract_tm_number") =>
    IF isna(call.args[1]) \/ Trimmed(call.args[1]) \in {<<>>, <<"N", "A", "N">>, <<"T", "M">>}
    THEN ~is_valid_tm_number(call.ret)
    ELSE /\ call.ret = TaggedKey(call.args[1])
         /\ is_valid_tm_number(call.ret)
         /\ call.args[1] \in {StrCell(<<"4", "2">>), StrCell(<<"t", "m", "4", "2">>)} => call.ret = <<"T", "M", "4", "2">>

\* C13: a call on the text Nan, which is neither empty nor the bare tag, has
\* returned no key
C13_Witness ==
  /\ Returned("extract_tm_number")
  /\ call.args = <<StrCell(<<" ", "N", "a", "n">>)>>
  /\ call.ret = None
  /\ ~is_valid_tm_number(call.ret)

(***************************************************************************)
(* find_column called directly                                             *)
(***************************************************************************)
MaxLabels == 3

LabelPool ==
  {StrCell(<<"T", "P", "C", "o", "s", "t">>), StrCell(<<"t", "p", "c", "o", "s", "t", " ">>), StrCell(<<"T", "o", "t", "a", "l">>), StrCell(<<" ", "T", "O", "T", "A", "L">>),
   StrCell(<<"J", "o", "b", " ", "N", "o">>), StrCell(<<"N", "a", "m", "e">>), NumCell(<<"2", "0", "2", "4">>)}

\* the label rows of at most MaxLabels columns; read_excel and read_csv
\* give no two columns the same label
LabelRows ==
  UNION {{l \in SeqsOfLen(LabelPool, n) :
            \A j \in 1..n : \A j2 \in (j + 1)..n : l[j] # l[j2]} : n \in 0..MaxLabels}

CandidateLists == {tm_cost_aliases, xero_total_aliases, tm_job_aliases}

InitColumn ==
  /\ NoSession
  /\ \E labels \in LabelRows, candidates \in CandidateLists :
       call = Call("find_column", <<labels, candidates>>)

CallFindColumn ==
  /\ call.fn = "find_column"
  /\ ~call.returned
  /\ call' = [call EXCEPT !.returned = TRUE,
                          !.ret = find_column_try(call.args[1], call.args[2])]
  /\ UNCHANGED <<inputs, widgets, run>>

NextColumn == CallFindColumn

SpecColumn == InitColumn /\ [][NextColumn]_vars

\* the case/whitespace-normalized form of a label, and of a candidate
LabelKey(label) == IF label.t = "str" THEN Strip(Lower(label.v)) ELSE label.v
CandidateKey(candidate) == Strip(Lower(candidate))

\* the columns whose label some candidate names, by position
NamedColumns(labels, candidates) ==
  {j \in 1..Len(labels) :
     /\ labels[j].t = "str"
     /\ \E i \in 1..Len(candidates) : LabelKey(labels[j]) = CandidateKey(candidates[i])}

\* the columns whose label candidate i names, by position
NamedBy(labels, candidates, i) ==
  {j \in 1..Len(labels) :
     labels[j].t = "str" /\ LabelKey(labels[j]) = CandidateKey(candidates[i])}

\* C14 as stated: a call returns the label of the earliest column, in the
\* table's order, that any candidate names, and None when there is none
C14_AsStated ==
  Returned("find_column") =>
    IF NamedColumns(call.args[1], call.args[2]) = {} THEN call.ret = None
    ELSE \E j \in NamedColumns(call.args[1], call.args[2]) :
           /\ \A j2 \in NamedColumns(call.args[1], call.args[2]) : j <= j2
           /\ call.ret = call.args[1][j].v

\* C14: the candidates decide, in their own order: a call returns a label
\* that the first candidate naming any column names, and of the columns
\* that candidate names, the last in the table's order; it returns None
\* when no candidate names a column, and also when some label is not text
C14_CandidateOrder ==
  Returned("find_column") =>
    IF \/ NamedColumns(call.args[1], call.args[2]) = {}
       \/ \E j \in 1..Len(call.args[1]) : call.args[1][j].t # "str"
    THEN call.ret = None
    ELSE \E i \in 1..Len(call.args[2]) :
           /\ NamedBy(call.args[1], call.args[2], i) # {}
           /\ \A h \in 1..(i - 1) : NamedBy(call.args[1], call.args[2], h) = {}
           /\ \E j \in NamedBy(call.args[1], call.args[2], i) :
                /\ \A j2 \in NamedBy(call.args[1], call.args[2], i) : j2 <= j
                /\ call.ret = call.args[1][j].v

\* C14: a call with the TM cost candidates on a table whose first column is
\* Total and whose second is TPCost has returned TPCost, the column of the
\* earlier candidate
C14_Witness ==
  /\ Returned("find_column")
  /\ call.args = <<<<StrCell(<<"T", "o", "t", "a", "l">>), StrCell(<<"T", "P", "C", "o", "s", "t">>)>>, tm_cost_aliases>>
  /\ call.ret = <<"T", "P", "C", "o", "s", "t">>

(***************************************************************************)
(* The sidebar filters on a tracker that has the optional columns          *)
(***************************************************************************)
FilterColumns ==
  <<<<"T", "M", " ", "N", "O">>, <<"T", "P", " ", "N", "A", "M", "E">>, <<"F", "F", " ", "D", "A", "T", "E">>, <<"P", "O", " ", "T", "Y", "P", "E">>, <<"S", "T", "A", "T", "U", "S">>, <<"C", "L", "I", "E", "N", "T">>>>

FilterRowPool ==
  {<<NumCell(<<"1">>), StrCell(<<"A", "u", "g", "e", "r", " ", "L", "t", "d">>), DateCell(<<"J", "a", "n", " ", "2", "0", "2", "4">>),
     StrCell(<<"A">>), StrCell(<<"O", "p", "e", "n">>), StrCell(<<"C", "1">>)>>,
   <<NumCell(<<"2">>), StrCell(<<"O", "a", "k">>), NaN,
     NaN, StrCell(<<"O", "p", "e", "n">>), StrCell(<<"C", "2">>)>>,
   <<NumCell(<<"3">>), StrCell(<<"A", "u", "g", "e", "r">>), DateCell(<<"F", "e", "b", " ", "2", "0", "2", "4">>),
     StrCell(<<"B">>), StrCell(<<"D", "o", "n", "e">>), StrCell(<<"C", "1">>)>>,
   <<NumCell(<<"4">>), StrCell(<<"E", "l", "m">>), DateCell(<<"J", "a", "n", " ", "2", "0", "2", "4">>),
     StrCell(<<"A">>), NaN, NaN>>}

FilterTrackers ==
  UNION {{LoadTracker(File(FilterColumns, rows)) : rows \in SeqsOfLen(FilterRowPool, n)} :
           n \in 1..MaxRows}

InitFilter ==
  /\ tracker_df \in FilterTrackers
  /\ tm_df = LoadTM(NoFile)
  /\ xero_df = LoadXero(NoFile)
  /\ match_mode = TrackerVsTM
  /\ selected_months = all_months
  /\ selected_po_types = all_po_types
  /\ selected_statuses = all_statuses
  /\ selected_clients = all_clients
  /\ excluded_tps = DEFAULT_EXCLUDED_TPS \cap all_tracker_tps
  /\ pc = "idle"
  /\ idx = 1
  /\ results = EmptyResults
  /\ processed_combinations = {}
  /\ warnings = <<>>
  /\ errors = <<>>
  /\ summary = NoSummary
  /\ call = NoCall

NextFilter ==
  \/ \E tps \in SUBSET all_tracker_tps :
       /\ Narrowed(selected_months, selected_po_types, selected_statuses,
                   selected_clients, tps) <= MaxNarrowed
       /\ SelectExcluded(tps)
  \/ \E months \in SUBSET all_months, po_types \in SUBSET all_po_types,
        statuses \in SUBSET all_statuses, clients \in SUBSET all_clients :
       /\ Narrowed(months, po_types, statuses, clients, excluded_tps) <= MaxNarrowed
       /\ SelectFilters(months, po_types, statuses, clients)

SpecFilter == InitFilter /\ [][NextFilter]_vars

\* the value of a row in an optional column, as the filter reads it
FieldText(row, col) == str(Cell(tracker_df.columns, row.raw, col))

\* the selection of a field places no restriction on a row: it is empty, or
\* the row's value is in it
Admits(selection, value) == selection = {} \/ value \in selection

\* the rows the four selections and the exclusion set keep, an empty
\* selection restricting nothing
Keeps(row) ==
  /\ Admits(selected_months, row.MONTH)
  /\ tracker_df.po_type_col # None =>
       Admits(selected_po_types, FieldText(row, tracker_df.po_type_col))
  /\ tracker_df.status_col # None =>
       Admits(selected_statuses, FieldText(row, tracker_df.status_col))
  /\ tracker_df.client_col # None =>
       Admits(selected_clients, FieldText(row, tracker_df.client_col))
  /\ ~isin(row.TP_NAME, excluded_tps)

\* C16: the filtered tracker holds exactly the rows that every field's
\* selection admits and the exclusion set does not exclude, where an empty
\* selection for a field (period, PO type, status, client) admits every row
C16_EmptyIsNoRestriction ==
  filtered_tracker = SelectSeq(tracker_df.rows, Keeps)

(***************************************************************************)
(* TM vs Xero on reports whose cost cells are of every kind                *)
(***************************************************************************)
CostCells == {Num(0), Num(1000), Num(1200), Num(-50), NumStr(1000), NoCost, BadCost}

CostedTMs ==
  {LoadTM(File(TMColumns, <<>>))} \cup
  {LoadTM(File(TMColumns, <<<<NumCell(<<"1">>), StrCell(<<"O", "a", "k">>), cost>>>>)) : cost \in CostCells}

CostedXeros ==
  {LoadXero(File(XeroColumns, <<>>))} \cup
  {LoadXero(File(XeroColumns, <<<<StrCell(<<"T", "M", "1">>), StrCell(<<"O", "a", "k">>), cost>>>>)) : cost \in CostCells}

InitCosted ==
  /\ tracker_df = LoadTracker(File(TrackerColumns, <<>>))
  /\ tm_df \in CostedTMs
  /\ xero_df \in CostedXeros
  /\ match_mode = TMVsXero
  /\ selected_months = all_months
  /\ selected_po_types = all_po_types
  /\ selected_statuses = all_statuses
  /\ selected_clients = all_clients
  /\ excluded_tps = {}
  /\ pc = "idle"
  /\ idx = 1
  /\ results = EmptyResults
  /\ processed_combinations = {}
  /\ warnings = <<>>
  /\ errors = <<>>
  /\ summary = NoSummary
  /\ call = NoCall

NextCosted == ClickRun \/ TMVsXeroRow \/ Summarize

SpecCosted == InitCosted /\ [][NextCosted]_vars

\* the cost of every row of a report is a number that is not negative, and
\* is 0 when the raw cost cell is missing or does not parse
CostsNormal(df) ==
  \A k \in 1..Len(df.rows) :
    /\ df.rows[k].COST >= 0
    /\ df.rows[k].raw[3].t \in {"nan", "str"} => df.rows[k].COST = 0

\* C17: every row of the TM report and of the Xero report, as joined, has a
\* cost that is a number and not negative, a missing or unparseable raw cost
\* having become exactly 0 with its row kept
C17_NonNegativeCost ==
  /\ CostsNormal(tm_df)
  /\ CostsNormal(xero_df)
  /\ \A k \in 1..Len(filtered_tm) : filtered_tm[k].COST >= 0

\* the similar-length guard rejects the two names: they differ lower-cased
\* and normalized, and the shorter normalized name is a single token that
\* the longer one contains as a whole token
GuardRejects(name1, name2) ==
  /\ ~isna(name1) /\ ~isna(name2)
  /\ Strip(Lower(str(name1))) # Strip(Lower(str(name2)))
  /\ normalize_tp_name(name1) # normalize_tp_name(name2)
  /\ \E short \in {normalize_tp_name(name1), normalize_tp_name(name2)} :
       \E long \in {normalize_tp_name(name1), normalize_tp_name(name2)} :
         /\ Len(short) < Len(long)
         /\ Len(Split(short)) = 1
         /\ Split(short)[1] \in Range(Split(long))
         /\ ~substring_stage(short, long)

\* C19: a call on a pair that the similar-length guard rejects (a
\* single-token name against a longer name that holds it as a whole token,
\* such as kw against kw edge) returns False: no later stage accepts it
C19_GuardIsFinal ==
  (Returned("fuzzy_match") /\ GuardRejects(call.args[1], call.args[2])) =>
    call.ret = FALSE

(***************************************************************************)
(* A session in which the uploads are replaced between runs                *)
(***************************************************************************)
MaxUploadRows == 1

SessionTrackerFiles ==
  UNION {{File(TrackerColumns, rows) :
            rows \in SeqsOfLen({<<NumCell(<<"1">>), StrCell(<<"A", "u", "g", "e", "r", " ", "L", "t", "d">>), DateCell(<<"J", "a", "n", " ", "2", "0", "2", "4">>)>>,
                                <<NumCell(<<"2">>), StrCell(<<"O", "a", "k">>), NaN>>}, n)} :
           n \in 0..MaxUploadRows}

SessionTMFiles ==
  {NoFile} \cup
  UNION {{File(TMColumns, rows) :
            rows \in SeqsOfLen({<<NumCell(<<"1">>), StrCell(<<"A", "u", "g", "e", "r">>), Num(1000)>>,
                                <<NumCell(<<"1">>), NumCell(<<"1", "2">>), Num(1000)>>}, n)} :
           n \in 0..MaxUploadRows}

SessionXeroFiles ==
  {NoFile} \cup
  UNION {{File(XeroColumns, rows) :
            rows \in SeqsOfLen({<<StrCell(<<"T", "M", "1">>), StrCell(<<"A", "u", "g", "e", "r">>), Num(1005)>>,
                                <<StrCell(<<"T", "M", "1">>), StrCell(<<"O", "a", "k">>), Num(1005)>>}, n)} :
           n \in 0..MaxUploadRows}

\* the tables loaded from these uploads
SessionTrackers == {LoadTracker(file) : file \in SessionTrackerFiles}
SessionTMs == {LoadTM(file) : file \in SessionTMFiles}
SessionXeros == {LoadXero(file) : file \in SessionXeroFiles}

\* the first uploads: a tracker and a TM report, no Xero report
InitSession ==
  /\ tracker_df = LoadTracker(File(TrackerColumns,
                    <<<<NumCell(<<"1">>), StrCell(<<"A", "u", "g", "e", "r", " ", "L", "t", "d">>), DateCell(<<"J", "a", "n", " ", "2", "0", "2", "4">>)>>>>))
  /\ tm_df = LoadTM(File(TMColumns, <<<<NumCell(<<"1">>), StrCell(<<"A", "u", "g", "e", "r">>), Num(1000)>>>>))
  /\ xero_df = LoadXero(NoFile)
  /\ match_mode = TrackerVsTM
  /\ selected_months = all_months
  /\ selected_po_types = all_po_types
  /\ selected_statuses = all_statuses
  /\ selected_clients = all_clients
  /\ excluded_tps = DEFAULT_EXCLUDED_TPS \cap all_tracker_tps
  /\ pc = "idle"
  /\ idx = 1
  /\ results = EmptyResults
  /\ processed_combinations = {}
  /\ warnings = <<>>
  /\ errors = <<>>
  /\ summary = NoSummary
  /\ call = NoCall

\* another tracker is uploaded: the script reruns without the button; a
\* sidebar selection stays when the new options still hold it and the
\* widget is the same to streamlit, and is the default again otherwise
UploadTracker(loaded) ==
  /\ pc # "loop"
  /\ loaded # tracker_df
  /\ tracker_df' = loaded
  /\ \/ /\ selected_months' = all_months'
        /\ selected_po_types' = all_po_types'
        /\ selected_statuses' = all_statuses'
        /\ selected_clients' = all_clients'
        /\ excluded_tps' = DEFAULT_EXCLUDED_TPS \cap all_tracker_tps'
     \/ /\ selected_months \subseteq all_months'
        /\ excluded_tps \subseteq all_tracker_tps'
        /\ UNCHANGED <<selected_months, selected_po_types, selected_statuses,
                       selected_clients, excluded_tps>>
  /\ Rerun
  /\ UNCHANGED <<call, tm_df, xero_df, match_mode>>

\* another TM report is uploaded, or the TM report is removed
UploadTM(loaded) ==
  /\ pc # "loop"
  /\ loaded # tm_df
  /\ tm_df' = loaded
  /\ Rerun
  /\ UNCHANGED <<call, tracker_df, xero_df, widgets>>

\* another Xero report is uploaded, or the Xero report is removed
UploadXero(loaded) ==
  /\ pc # "loop"
  /\ loaded # xero_df
  /\ xero_df' = loaded
  /\ Rerun
  /\ UNCHANGED <<call, tracker_df, tm_df, widgets>>

NextSession ==
  \/ Next
  \/ \E loaded \in SessionTrackers : UploadTracker(loaded)
  \/ \E loaded \in SessionTMs : UploadTM(loaded)
  \/ \E loaded \in SessionXeros : UploadXero(loaded)

SpecSession == InitSession /\ [][NextSession]_vars

\* C20: whatever runs, mode, filter and exclusion changes and uploads came
\* before, the results of a run are those of the row loop of the selected
\* mode over the rows of the driving table processed so far, started from
\* empty categories, and the summary of a completed run is computed from
\* those results; outside a run there are no results and no summary
C20_Fresh ==
  /\ InRun =>
       /\ results = RunOn(SubSeq(driving, 1, Processed), 1, EmptyResults, {})
       /\ Len(warnings) = Cardinality(RaisedIn(ReachedPass))
  /\ pc = "loop" => summary = NoSummary
  /\ pc = "done" => Processed = Len(driving) /\ summary = Aggregate(results)
  /\ pc \in {"idle", "stopped"} =>
       results = EmptyResults /\ warnings = <<>> /\ summary = NoSummary

\* C20: a completed 3-way Full run with a matched record, after the Xero
\* report was uploaded and the mode changed since the first uploads
C20_Witness ==
  /\ pc = "done"
  /\ match_mode = ThreeWay
  /\ xero_df.ok
  /\ Len(xero_df.rows) = 1
  /\ Len(results["matched"]) = 1
  /\ summary.total_matched = 1

(***************************************************************************)
(* The matched branch of the three row loops, over tables whose names do   *)
(* not all match one another: "oak elm" matches "oak" and "elm", which do  *)
(* not match each other.                                                   *)
(***************************************************************************)
MaxJoinRows == 2

JoinTrackerRows ==
  {<<NumCell(<<"1">>), StrCell(name), DateCell(<<"J", "a", "n", " ", "2", "0", "2", "4">>)>> :
     name \in {<<"o", "a", "k">>, <<"o", "a", "k", " ", "e", "l", "m">>}}

JoinTMRows ==
  {<<NumCell(<<"1">>), StrCell(<<"o", "a", "k">>), Num(1000)>>,
   <<NumCell(<<"1">>), StrCell(<<"o", "a", "k", " ", "e", "l", "m">>), Num(1000)>>,
   <<NumCell(<<"1">>), StrCell(<<"o", "a", "k">>), Num(0)>>}

JoinXeroRows ==
  {<<StrCell(<<"T", "M", "1">>), StrCell(<<"e", "l", "m">>), Num(1005)>>,
   <<StrCell(<<"T", "M", "1">>), StrCell(<<"e", "l", "m">>), Num(1200)>>,
   <<StrCell(<<"T", "M", "2">>), StrCell(<<"o", "a", "k">>), Num(1005)>>}

\* a tracker of at most one row, reports of at most MaxJoinRows rows
JoinTrackers ==
  {LoadTracker(File(TrackerColumns, rows)) :
     rows \in {<<>>} \cup {<<r>> : r \in JoinTrackerRows}}
JoinTMs ==
  UNION {{LoadTM(File(TMColumns, rows)) : rows \in SeqsOfLen(JoinTMRows, n)} :
           n \in 0..MaxJoinRows}
JoinXeros ==
  UNION {{LoadXero(File(XeroColumns, rows)) : rows \in SeqsOfLen(JoinXeroRows, n)} :
           n \in 0..MaxJoinRows}

InitJoin ==
  /\ tracker_df \in JoinTrackers
  /\ tm_df \in JoinTMs
  /\ xero_df \in JoinXeros
  /\ match_mode \in Modes
  /\ selected_months = all_months
  /\ selected_po_types = all_po_types
  /\ selected_statuses = all_statuses
  /\ selected_clients = all_clients
  /\ excluded_tps = {}
  /\ pc = "idle"
  /\ idx = 1
  /\ results = EmptyResults
  /\ processed_combinations = {}
  /\ warnings = <<>>
  /\ errors = <<>>
  /\ summary = NoSummary
  /\ call = NoCall

NextJoin ==
  \/ ClickRun
  \/ TrackerVsTMRow
  \/ TMVsXeroRow
  \/ ThreeWayRow
  \/ Summarize

SpecJoin == InitJoin /\ [][NextJoin]_vars

\* row k of a table is the row a pass matches under the job key tm_no and
\* the name: the first row with that key whose name matches
MatchedRow(rows, k, tm_no, name) ==
  /\ rows[k].TM_NO = tm_no
  /\ fuzzy_match(name, rows[k].TP_NAME)
  /\ \A j \in 1..(k - 1) :
       ~(rows[j].TM_NO = tm_no /\ fuzzy_match(name, rows[j].TP_NAME))

\* the TM report holds a row matched under the tracker row's key and name,
\* and its cost is not zero
SoundTrackerVsTM(row) ==
  \E k \in 1..Len(tm_df.rows) :
    /\ MatchedRow(tm_df.rows, k, row.TM_NO, row.TP_NAME)
    /\ tm_df.rows[k].COST # 0

\* the Xero report holds a row matched under the TM row's key and name, and
\* the two costs match
SoundTMVsXero(row) ==
  \E x \in 1..Len(xero_df.rows) :
    /\ MatchedRow(xero_df.rows, x, row.TM_NO, row.TP_NAME)
    /\ cost_matches(Num(row.COST), Num(xero_df.rows[x].COST))

\* both: the Xero row is matched under the name of the matched TM row
SoundThreeWay(row) ==
  \E k \in 1..Len(tm_df.rows) :
    /\ MatchedRow(tm_df.rows, k, row.TM_NO, row.TP_NAME)
    /\ tm_df.rows[k].COST # 0
    /\ \E x \in 1..Len(xero_df.rows) :
         /\ MatchedRow(xero_df.rows, x, row.TM_NO, tm_df.rows[k].TP_NAME)
         /\ cost_matches(Num(tm_df.rows[k].COST), Num(xero_df.rows[x].COST))

SoundMatch(row) ==
  IF match_mode = TrackerVsTM THEN SoundTrackerVsTM(row)
  ELSE IF match_mode = TMVsXero THEN SoundTMVsXero(row)
  ELSE SoundThreeWay(row)

\* C21: a pass puts a record in matched only for a driving row of that key
\* and name for which every joined table holds a matched row: in Tracker vs
\* TM and 3-way the matched TM row's cost is not zero, in TM vs Xero and
\* 3-way the TM cost and the matched Xero row's cost satisfy cost_matches,
\* and in 3-way the Xero row is matched under the matched TM row's name
C21_SoundMatched ==
  [][Len(results'["matched"]) > Len(results["matched"]) =>
       /\ pc = "loop"
       /\ Len(results'["matched"]) = Len(results["matched"]) + 1
       /\ results'["matched"][Len(results'["matched"])].TM_NO = driving[idx].TM_NO
       /\ results'["matched"][Len(results'["matched"])].TP = driving[idx].TP_NAME
       /\ SoundMatch(driving[idx])]_vars

\* C21: a completed 3-way Full run with a matched record whose tracker name
\* matches no name of the Xero report: the Xero row was matched under the
\* name of the TM row
C21_Witness ==
  /\ pc = "done"
  /\ match_mode = ThreeWay
  /\ Len(results["matched"]) = 1
  /\ \A x \in 1..Len(xero_df.rows) :
       ~fuzzy_match(results["matched"][1].TP, xero_df.rows[x].TP_NAME)

====
